---- MODULE Spec2Model ----
(***************************************************************************)
(* Model of the send/sniff engine of taf/testlib/dev_pypacker.py:          *)
(* PypackerTG (stream table, sender and sniffer threads, start/stop        *)
(* calls), StoppableThread (asynchronous exception injection), Collector   *)
(* and BaseStatistics.                                                     *)
(*                                                                         *)
(* One caller (the test) issues the API calls.  Calls that wait for        *)
(* threads (start_streams, stop_streams, stop_sniff) are split at the      *)
(* points where the caller can be overtaken by a thread: the alive/tid     *)
(* lookup of raise_exc, the injection under _thr_lock, and join().  Every  *)
(* sender and sniffer thread is a small state machine whose steps are the  *)
(* points at which an injected exception can surface.                      *)
(***************************************************************************)
EXTENDS Integers, Sequences, FiniteSets, TLC

\* ---------------------------------------------------------------- bounds
\* streams defined at a time
MaxStreams == 1
\* largest count of a stream; an unbounded sender is cut off after as many
MaxCount == 2
\* threads created in one run
MaxThreads == 2
\* frames the capture primitive delivers in one run
MaxFrames == 2
\* bytes of a frame the filter function is given
MaxBytes == 2

\* ------------------------------------------------------ program constants
\* required_size=64 of set_stream
RequiredSize == 64
\* Python's None where the code compares a number with it (count, timeout).
None == -1

Ifaces == {"a", "b"}
IfaceOrder == <<"a", "b">>
StreamIds == 1..MaxStreams
\* filter_layer of start_sniff: None, or one of two different
\* (offset, data, mask) triples.
Filters == {"None", "F1", "F2"}
\* The frames the capture primitive can deliver: f1 matches triple F1 only,
\* f2 matches triple F2 only.
FrameKinds == {"f1", "f2"}
\* sniffing_time of start_sniff: None or some positive number of seconds.
Timeouts == {None, 1}
\* packets_count of start_sniff: 0 (no bound) or a bound of one frame.
PacketCounts == {0, 1}

VARIABLES
    streams,        \* self.streams: id -> [iface, count, continuous]
    send_threads,   \* self._send_threads: id -> [thread, active]
    sniff_threads,  \* self._sniff_threads: list of thread ids
    threads,        \* every StoppableThread created so far, by thread id
    collector,      \* self._collector.data: iface -> list of frames
    sent,           \* self.sent_statistics.data
    recv,           \* self.receive_statistics.data
    tgfilter,       \* self.filter_offset/filter_data/filter_mask
    caller,         \* the calling thread: position inside the current call
    rdata,          \* what the last stop_sniff returned (so far)
    err,            \* the exception the last call raised, or "none"
    tx,             \* observer: frames handed to s.send per iface
    captured,       \* observer: frames accepted by the running sniffer's filter
    nframes,        \* observer: number of frames delivered so far (frame ids)
    wire,           \* observer: the packets handed to s.send per iface, in order
    statdata,       \* BaseStatistics.data of one tracker, as a dict
    lock,           \* BaseStatistics._lock of that tracker: its holder, or 0
    calls,          \* the BaseStatistics call each worker thread is inside
    applied         \* observer: increments applied per iface since its last clear

\* One BaseStatistics object under concurrent calls.
statvars == <<statdata, lock, calls, applied>>

\* The traffic generator and its threads.
tgvars == <<streams, send_threads, sniff_threads, threads, collector, sent, recv,
            tgfilter, caller, rdata, err, tx, captured, nframes, wire>>

vars == <<tgvars, statvars>>

\* ---------------------------------------------------------------- helpers
Max(S) == CHOOSE x \in S : \A y \in S : y <= x
Min(S) == CHOOSE x \in S : \A y \in S : x <= y

RECURSIVE SortedSeq(_)
SortedSeq(S) ==
    IF S = {} THEN << >>
    ELSE LET m == CHOOSE x \in S : \A y \in S : x <= y
         IN <<m>> \o SortedSeq(S \ {m})

Range(s) == {s[k] : k \in 1..Len(s)}

IndexOf(s, x) == CHOOSE k \in 1..Len(s) : s[k] = x

Alive(t) == threads[t].pc # "dead"

\* The threads that call into one BaseStatistics object (senders, sniffers,
\* the caller), and a thread that is in none of its methods.
Workers == 1..MaxThreads
NoCall == [pc |-> "idle", op |-> "none", iface |-> "none", tmp |-> 0, ret |-> 0]

\* A packet: the header fields the increments of this model drive (the
\* Ethernet type, a top-level attribute, and ip.tos, a dotted layer path)
\* and "len", the length of its serialized form.
Fields == {"type", "ip.tos"}

\* A sender thread that holds no packet (yet, or any more).
NoPacket == [f \in Fields \cup {"len"} |-> 0]

Senders == {t \in 1..Len(threads) : threads[t].kind = "send"}
Sniffers == {t \in 1..Len(threads) : threads[t].kind = "sniff"}

\* A socket that stays as it is when _sendp is left.
SocketLeft(th) == th.open

\* "with closing(psocket.SocketHndl(iface_name=iface)) as s": the socket of
\* a sender is open (TRUE) or not once _sendp is left, however it is left.
SocketClosed(th) == FALSE

\* A thread that ends: by an exception (exc names it) or normally ("none").
\* Thread.run deletes _args.  _sniffer never closes pc, its capture handle:
\* it is as it was when the thread ends.  failed (observer) remembers that
\* a dispatch call of the sniffer has failed.
Ended(th, exc) ==
    IF th.kind = "send"
    THEN [kind |-> "send", pc |-> "dead", pending |-> FALSE, exc |-> exc,
          stream_id |-> th.stream_id, iface |-> "none", count |-> None,
          n |-> 0, txn |-> 0, gen |-> FALSE, own |-> FALSE, packet |-> NoPacket,
          open |-> SocketClosed(th)]
    ELSE [kind |-> "sniff", pc |-> "dead", pending |-> FALSE, exc |-> exc,
          port |-> th.port, count |-> 0, timeout |-> None, filter |-> "None",
          expired |-> FALSE, open |-> th.open, failed |-> th.failed]

\* A thread object that has ended and that no registry refers to is
\* garbage; of a sender, how it ended is remembered.
Gone(th) ==
    IF th.kind = "send"
    THEN [kind |-> "send", pc |-> "dead", pending |-> FALSE, exc |-> th.exc,
          stream_id |-> 0, iface |-> "none", count |-> None, n |-> 0, txn |-> 0,
          gen |-> FALSE, own |-> FALSE, packet |-> NoPacket, open |-> th.open]
    ELSE [kind |-> "sniff", pc |-> "dead", pending |-> FALSE, exc |-> "none",
          port |-> "none", count |-> 0, timeout |-> None, filter |-> "None",
          expired |-> FALSE, open |-> th.open, failed |-> FALSE]

Sweep(thr, sniff_reg, send_reg) ==
    [t \in DOMAIN thr |->
        IF /\ thr[t].pc = "dead"
           /\ t \notin Range(sniff_reg)
           /\ \A id \in DOMAIN send_reg : send_reg[id].thread # t
        THEN Gone(thr[t]) ELSE thr[t]]

\* The thread table after thread t has ended.
Die(t, exc) ==
    Sweep([threads EXCEPT ![t] = Ended(threads[t], exc)], sniff_threads, send_threads)

\* The caller between two calls: op names the call that returned last; arg
\* and force are remembered of start_sniff, of stop_streams and of a call
\* that raised.
Idle(op, arg, force) ==
    [pc |-> "idle", op |-> op, arg |-> arg, force |-> force, todo |-> << >>]

Init ==
    /\ streams = << >>
    /\ send_threads = << >>
    /\ sniff_threads = << >>
    /\ threads = << >>
    /\ collector = [i \in Ifaces |-> << >>]
    /\ sent = [i \in Ifaces |-> 0]
    /\ recv = [i \in Ifaces |-> 0]
    /\ tgfilter = "None"
    /\ caller = Idle("none", {}, FALSE)
    /\ rdata = << >>
    /\ err = "none"
    /\ tx = [i \in Ifaces |-> 0]
    /\ captured = [i \in Ifaces |-> << >>]
    /\ nframes = 0
    /\ wire = [i \in Ifaces |-> << >>]
    /\ statdata = << >>
    /\ lock = 0
    /\ calls = [w \in Workers |-> NoCall]
    /\ applied = [i \in Ifaces |-> 0]

\* ------------------------------------------------------------- set_stream
\* Ids counted from the lowest one in use.
NextStreamIdLow == IF DOMAIN streams # {} THEN Min(DOMAIN streams) + 1 ELSE 1

\* Ids that stay at the highest one in use.
NextStreamIdLast == IF DOMAIN streams # {} THEN Max(DOMAIN streams) ELSE 1

\* stream_id = (max(self.streams.keys()) + 1) if self.streams else 1
NextStreamId == IF DOMAIN streams # {} THEN Max(DOMAIN streams) + 1 ELSE 1

\* required_size as an int (the default), and as a tuple: kind is its
\* element 0 ("()" for the empty tuple), args are the elements after it.
IntSize == [kind |-> "int", args |-> <<RequiredSize>>]
TupleSize(kind, args) == [kind |-> kind, args |-> args]

\* An increment argument: None, or a tuple.
NoIncrement == [given |-> FALSE, conf |-> << >>]
Increment(conf) == [given |-> TRUE, conf |-> conf]

\* The packet _build_pypacker_packet returns: every driven field is 1.
BuildPacket(size) == [f \in Fields \cup {"len"} |-> IF f = "len" THEN size ELSE 1]

\* A generator object of tg_generators: the field it drives, the values it
\* yields and how many of them it has yielded; a random one yields any
\* value between lo and hi, without end.
Generator(field, vals) ==
    [field |-> field, vals |-> vals, pos |-> 0, random |-> FALSE, lo |-> 0, hi |-> 0]

\* PypackerIncrementPayloadGenerator(start, end, step, None): start,
\* start + step, ... as far as end.
GenIncrementedSize(start, end, step) ==
    LET n == IF step # 0 /\ (end - start) * step >= 0
             THEN ((end - start) \div step) + 1 ELSE 0
    IN Generator("padding", [k \in 1..n |-> start + (k - 1) * step])

\* PypackerRandomPayloadGenerator(start, end, None, None)
GenRandomSize(start, end) ==
    [field |-> "padding", vals |-> << >>, pos |-> 0, random |-> TRUE,
     lo |-> start, hi |-> end]

\* _gen_list: generator(start, None, increment_conf[0], increment_conf[1]),
\* that is count values from start on, step apart.
GenList(increment_conf, start, field) ==
    Generator(field, [k \in 1..increment_conf[2] |-> start + (k - 1) * increment_conf[1]])

\* verify_increment_conf: "Stream increment should be a tuple in format
\* ('int', 'int')".
ShortConf(increment_conf) == Len(increment_conf) <= 1

\* The elements of a required_size tuple the code reads: 1..3 of
\* "Increment" (step, min, max), 1..2 of "Random" (min, max).
SizeMin(rs) == IF rs.kind = "Increment" THEN rs.args[2] ELSE rs.args[1]
SizeMax(rs) == IF rs.kind = "Increment" THEN rs.args[3] ELSE rs.args[2]

\* A check of the tuple's shape that does not compare max with min.
SizeErrorShape(rs) ==
    /\ rs.kind # "int"
    /\ \/ rs.kind \notin {"Increment", "Random"}
       \/ rs.kind = "Increment" /\ Len(rs.args) < 3
       \/ rs.kind = "Random" /\ Len(rs.args) < 2

\* The tuple is refused: unknown kind, IndexError, or max below min.
SizeError(rs) ==
    /\ rs.kind # "int"
    /\ \/ rs.kind \notin {"Increment", "Random"}
       \/ rs.kind = "Increment" /\ Len(rs.args) < 3
       \/ rs.kind = "Random" /\ Len(rs.args) < 2
       \/ SizeMax(rs) < SizeMin(rs)

\* The padding generator of a required_size tuple; a negative step runs
\* from max down to min.
SizeIncrements(rs) ==
    IF rs.kind = "Increment"
    THEN IF rs.args[1] < 0
         THEN <<GenIncrementedSize(SizeMax(rs), SizeMin(rs), rs.args[1])>>
         ELSE <<GenIncrementedSize(SizeMin(rs), SizeMax(rs), rs.args[1])>>
    ELSE IF rs.kind = "Random"
         THEN <<GenRandomSize(SizeMin(rs), SizeMax(rs))>>
         ELSE << >>

\* "Set increments", in INCREMENT_ORDER: eth_type_increment, dscp_increment.
FieldIncrements(packet, eth_type_increment, dscp_increment) ==
    (IF eth_type_increment.given
     THEN <<GenList(eth_type_increment.conf, packet["type"], "type")>> ELSE << >>)
    \o (IF dscp_increment.given
        THEN <<GenList(dscp_increment.conf, packet["ip.tos"], "ip.tos")>> ELSE << >>)

\* set_stream raises TypeError.
StreamError(required_size, eth_type_increment, dscp_increment) ==
    \/ SizeError(required_size)
    \/ eth_type_increment.given /\ ShortConf(eth_type_increment.conf)
    \/ dscp_increment.given /\ ShortConf(dscp_increment.conf)

\* self.streams[stream_id] = {"packet": packet, "kwargs": args}; incs is
\* args["stream_increments"], empty when the key is not set.
StreamArgs(iface, count, continuous, packet, incs) ==
    [iface |-> iface,
     count |-> IF continuous THEN None ELSE count,
     continuous |-> continuous,
     packet |-> packet,
     incs |-> incs]

SetStream(iface, count, continuous, required_size, eth_type_increment, dscp_increment) ==
    /\ caller.pc = "idle"
    /\ IF StreamError(required_size, eth_type_increment, dscp_increment)
       THEN /\ streams' = streams
            /\ err' = "TypeError"
       ELSE LET packet == BuildPacket(IF required_size.kind = "int"
                                      THEN required_size.args[1] ELSE RequiredSize)
                incs == SizeIncrements(required_size)
                        \o FieldIncrements(packet, eth_type_increment, dscp_increment)
            IN /\ streams' = [id \in DOMAIN streams \cup {NextStreamId} |->
                                IF id = NextStreamId
                                THEN StreamArgs(iface, count, continuous, packet, incs)
                                ELSE streams[id]]
               /\ err' = "none"
    /\ caller' = Idle("set_stream", {}, FALSE)
    /\ UNCHANGED <<statvars, wire, send_threads, sniff_threads, threads, collector,
                   sent, recv, tgfilter, rdata, tx, captured, nframes>>

\* A stream without increments, of the default size.
SetPlainStream(iface, count, continuous) ==
    SetStream(iface, count, continuous, IntSize, NoIncrement, NoIncrement)

\* ---------------------------------------------------------- start_streams
NewSender(stream_id) ==
    [kind |-> "send", pc |-> "start", pending |-> FALSE, exc |-> "none",
     stream_id |-> stream_id, iface |-> "none", count |-> None, n |-> 0, txn |-> 0,
     gen |-> FALSE, own |-> FALSE, packet |-> NoPacket, open |-> FALSE]

StartStreams(stream_list) ==
    /\ caller.pc = "idle"
    /\ Len(threads) + Cardinality(stream_list) <= MaxThreads
    /\ LET ids == SortedSeq(stream_list)
       IN /\ send_threads' =
                [id \in DOMAIN send_threads \cup stream_list |->
                    IF id \in stream_list
                    THEN [thread |-> Len(threads) + IndexOf(ids, id),
                          active |-> FALSE]
                    ELSE send_threads[id]]
          /\ threads' = Sweep(threads \o [k \in 1..Len(ids) |-> NewSender(ids[k])],
                              sniff_threads, send_threads')
    /\ caller' = [pc |-> "ss_wait", op |-> "start_streams", arg |-> stream_list,
                  force |-> FALSE, todo |-> << >>]
    /\ err' = "none"
    /\ UNCHANGED <<statvars, wire, streams, sniff_threads, collector, sent, recv, tgfilter,
                   rdata, tx, captured, nframes>>

AllActive(stream_list) ==
    \A id \in DOMAIN send_threads : id \in stream_list => send_threads[id].active

\* The wait loop ends because every listed stream is marked active ...
StartStreamsActivated ==
    /\ caller.pc = "ss_wait"
    /\ AllActive(caller.arg)
    /\ caller' = Idle(caller.op, {}, FALSE)
    /\ UNCHANGED <<statvars, wire, streams, send_threads, sniff_threads, threads, collector,
                   sent, recv, tgfilter, rdata, err, tx, captured, nframes>>

\* A wait loop without the check of end_time.
TimedOutNever == FALSE

\* time.time() > end_time: the clock gets there whatever the threads do.
TimedOut == TRUE

\* ... or because len(stream_list) seconds have passed.
StartStreamsTimeout ==
    /\ caller.pc = "ss_wait"
    /\ ~AllActive(caller.arg)
    /\ TimedOut
    /\ caller' = Idle(caller.op, {}, FALSE)
    /\ UNCHANGED <<statvars, wire, streams, send_threads, sniff_threads, threads, collector,
                   sent, recv, tgfilter, rdata, err, tx, captured, nframes>>

\* ------------------------------------------------------------ start_sniff
NewSniffer(port, count, timeout, flt) ==
    [kind |-> "sniff", pc |-> "start", pending |-> FALSE, exc |-> "none",
     port |-> port, count |-> count, timeout |-> timeout, filter |-> flt,
     expired |-> FALSE, open |-> FALSE, failed |-> FALSE]

\* Other port checks start_sniff could make: none at all; one that also
\* counts the interfaces senders transmit on; one that only counts the
\* sniffers that still run.
SniffConflictIgnored(ifaces) == FALSE

SniffConflictWithSenders(ifaces) ==
    \/ \E k \in 1..Len(sniff_threads) : threads[sniff_threads[k]].port \in ifaces
    \/ \E t \in Senders : Alive(t) /\ threads[t].iface \in ifaces

SniffConflictAlive(ifaces) ==
    \E k \in 1..Len(sniff_threads) :
        Alive(sniff_threads[k]) /\ threads[sniff_threads[k]].port \in ifaces

\* "Verify that there is no ports already used by another sniffer"
SniffConflict(ifaces) ==
    \E k \in 1..Len(sniff_threads) : threads[sniff_threads[k]].port \in ifaces

\* A start_sniff that would start a sniffer on every listed interface that
\* has none.
SpawnPortsFree(ifaces) == {i \in ifaces : ~SniffConflict({i})}

\* The interfaces a start_sniff call starts a sniffer on.
SpawnPorts(ifaces) == IF SniffConflict(ifaces) THEN {} ELSE ifaces

StartSniff(ifaces, count, timeout, flt) ==
    /\ caller.pc = "idle"
    /\ Len(threads) + Cardinality(SpawnPorts(ifaces)) <= MaxThreads
    /\ LET ports == SelectSeq(IfaceOrder, LAMBDA i : i \in SpawnPorts(ifaces))
       IN /\ threads' = threads \o
                [k \in 1..Len(ports) |-> NewSniffer(ports[k], count, timeout, flt)]
          /\ sniff_threads' = sniff_threads \o
                [k \in 1..Len(ports) |-> Len(threads) + k]
          /\ captured' = [i \in Ifaces |->
                            IF i \in Range(ports) THEN << >> ELSE captured[i]]
    /\ err' = IF SniffConflict(ifaces) THEN "PypackerException" ELSE "none"
    /\ caller' = Idle("start_sniff", ifaces, FALSE)
    /\ UNCHANGED <<statvars, wire, streams, send_threads, collector, sent, recv, tgfilter,
                   rdata, tx, nframes>>

\* ---------------------------------------------- stop_streams / stop_sniff
\* One entry per thread the call stops: the thread, whether terminate() is
\* called on it before join(), and the key it is registered under.
Target(t, term, key) == [thr |-> t, term |-> term, key |-> key]

\* stop_streams: "If stream_list not defined then stop all streams"
StopList(stream_list) == IF stream_list = {} THEN DOMAIN streams ELSE stream_list

StopStreamsTodo(stream_list) ==
    LET ids == SortedSeq(DOMAIN send_threads \cap StopList(stream_list))
    IN [k \in 1..Len(ids) |-> Target(send_threads[ids[k]].thread, TRUE, ids[k])]

Returned(op, arg, force) ==
    IF op = "stop_streams" THEN Idle(op, arg, force) ELSE Idle(op, {}, FALSE)

Begin(op, arg, force, todo) ==
    IF todo = << >> THEN Returned(op, arg, force)
    ELSE [pc |-> "term", op |-> op, arg |-> arg, force |-> force, todo |-> todo]

StopStreams(stream_list) ==
    /\ caller.pc = "idle"
    /\ caller' = Begin("stop_streams", stream_list, FALSE,
                       StopStreamsTodo(stream_list))
    /\ err' = "none"
    /\ UNCHANGED <<statvars, wire, streams, send_threads, sniff_threads, threads, collector,
                   sent, recv, tgfilter, rdata, tx, captured, nframes>>

\* A stop_sniff that stops every sniffer whatever the list.
SniffListAll(ifaces) == {threads[t].port : t \in Range(sniff_threads)}

\* stop_sniff: "If ifaces list is defined, then stop sniffer only on this
\* ifaces. Else - stop all sniffers"
SniffList(ifaces) ==
    IF ifaces = {} THEN {threads[t].port : t \in Range(sniff_threads)} ELSE ifaces

\* "Stop all threads without count and time": args[1:3] == (0, None); a
\* thread that has ended has no _args any more.
Unbounded(t) == Alive(t) /\ threads[t].count = 0 /\ threads[t].timeout = None

\* With force every listed sniffer is terminated and grabbed in list order.
\* Without it the unbounded ones are terminated and grabbed first, then the
\* bounded ones are joined without terminate().
StopSniffTodo(ifaces, force) ==
    LET listed == SelectSeq(sniff_threads,
                            LAMBDA t : threads[t].port \in SniffList(ifaces))
        first  == SelectSeq(listed, LAMBDA t : force \/ Unbounded(t))
        rest   == SelectSeq(listed, LAMBDA t : ~(force \/ Unbounded(t)))
    IN [k \in 1..Len(first) |-> Target(first[k], TRUE, threads[first[k]].port)]
       \o [k \in 1..Len(rest) |-> Target(rest[k], FALSE, threads[rest[k]].port)]

StopSniff(ifaces, force) ==
    /\ caller.pc = "idle"
    /\ caller' = Begin("stop_sniff", ifaces, force, StopSniffTodo(ifaces, force))
    /\ rdata' = << >>
    /\ err' = "none"
    /\ UNCHANGED <<statvars, wire, streams, send_threads, sniff_threads, threads, collector,
                   sent, recv, tgfilter, tx, captured, nframes>>

\* ------------------------------------------------------------ MultipleTG
\* self.tgs: the member traffic generators by id; the model has the state
\* of one member.
TgIds == {1}

\* Port = namedtuple('Port', 'tg, port'): the id MultipleTG.set_stream
\* returns for stream stream_id of member tg.
Port(tg, stream_id) == [tg |-> tg, port |-> stream_id]

\* The stream_list argument: None (the default) or a list.
NoList == [given |-> FALSE, list |-> {}]
TheList(L) == [given |-> TRUE, list |-> L]

\* get_tg_port_map: iface_map.setdefault(iface.tg, []).append(iface.port)
\* for iface in ifaces.
GetTgPortMap(ifaces) ==
    [tg \in {x.tg : x \in ifaces} |-> {x.port : x \in {y \in ifaces : y.tg = tg}}]

\* MultipleTG.stop_streams(stream_list=None): get_tg_port_map(stream_list),
\* then stop_streams(streams) of every member in the map.  "for iface in
\* ifaces" over None raises TypeError before any member is called.
MultiStopStreams(stream_list) ==
    /\ caller.pc = "idle"
    /\ IF ~stream_list.given
       THEN /\ err' = "TypeError"
            /\ caller' = Idle("multi_stop_streams", {}, FALSE)
            /\ UNCHANGED <<statvars, wire, streams, send_threads, sniff_threads, threads,
                           collector, sent, recv, tgfilter, rdata, tx, captured, nframes>>
       ELSE LET stream_map == GetTgPortMap(stream_list.list)
            IN IF DOMAIN stream_map = {}
               THEN /\ err' = "none"
                    /\ caller' = Idle("multi_stop_streams", {}, FALSE)
                    /\ UNCHANGED <<statvars, wire, streams, send_threads, sniff_threads,
                                   threads, collector, sent, recv, tgfilter, rdata, tx,
                                   captured, nframes>>
               ELSE \E tg \in DOMAIN stream_map \cap TgIds : StopStreams(stream_map[tg])

\* sanitize: self.stop_sniff(ifaces=None, force=True, drop_packets=True);
\* what stop_sniff returns is dropped.
Sanitize ==
    /\ caller.pc = "idle"
    /\ caller' = Begin("sanitize", {}, TRUE, StopSniffTodo({}, TRUE))
    /\ rdata' = << >>
    /\ err' = "none"
    /\ UNCHANGED <<statvars, wire, streams, send_threads, sniff_threads, threads, collector,
                   sent, recv, tgfilter, tx, captured, nframes>>

\* ------------------------------------------- StoppableThread.terminate()
\* _thr_lock of a sniffer is the stop_lock its loop holds around dispatch.
\* _thr_lock of a sender is a lock of its own (start_streams creates one,
\* send_stream another), so nothing ever holds it.
ThrLockHeld(t) ==
    threads[t].kind = "sniff" /\ threads[t].pc \in {"dispatch", "counting", "blocked"}

\* raise_exc, first half: isAlive() and the lookup in threading._active.
CallerTerm ==
    /\ caller.pc = "term"
    /\ LET h == Head(caller.todo)
       IN caller' = [caller EXCEPT !.pc =
                        IF h.term /\ Alive(h.thr) THEN "inject" ELSE "join"]
    /\ UNCHANGED <<statvars, wire, streams, send_threads, sniff_threads, threads, collector,
                   sent, recv, tgfilter, rdata, err, tx, captured, nframes>>

\* raise_exc, second half: with self._thr_lock: PyThreadState_SetAsyncExc.
\* It returns 0 when the thread has ended meanwhile: ValueError.
CallerInject ==
    /\ caller.pc = "inject"
    /\ LET t == Head(caller.todo).thr
       IN /\ ~ThrLockHeld(t)
          /\ IF Alive(t)
             THEN /\ threads' = [threads EXCEPT ![t].pending = TRUE]
                  /\ caller' = [caller EXCEPT !.pc = "join"]
                  /\ err' = err
             ELSE /\ threads' = threads
                  /\ caller' = Idle(caller.op, caller.arg, caller.force)
                  /\ err' = "ValueError"
    /\ UNCHANGED <<statvars, wire, streams, send_threads, sniff_threads, collector, sent, recv,
                   tgfilter, rdata, tx, captured, nframes>>

\* _grab_data_from_thread after join(): remove the thread, pop its bucket.
GrabData(iface) == collector[iface]

\* A _grab_data_from_thread that leaves the thread in the list.
RemoveNothing(list, thr) == list

\* self._sniff_threads.remove(thr)
Remove(list, thr) == SelectSeq(list, LAMBDA t : t # thr)

\* cleanup between stop_streams() and stop_sniff(): self.streams = {}, then
\* the sniffers to stop.
CleanupSniff == Begin("cleanup", {}, FALSE, StopSniffTodo({}, FALSE))

\* join() returns once the thread has ended; then the entry is removed: a
\* sender's from _send_threads, a sniffer's from _sniff_threads, with its
\* bucket from the collector.  cleanup goes on to its second half after the
\* last sender, and drops what its stop_sniff returns.
CallerJoin ==
    /\ caller.pc = "join"
    /\ LET h == Head(caller.todo)
           rest == Tail(caller.todo)
           sender == threads[h.thr].kind = "send"
           half == caller.op = "cleanup" /\ sender /\ rest = << >>
       IN /\ ~Alive(h.thr)
          /\ caller' = IF rest # << >>
                       THEN [caller EXCEPT !.todo = rest, !.pc = "term"]
                       ELSE IF half THEN CleanupSniff
                            ELSE Returned(caller.op, caller.arg, caller.force)
          /\ streams' = IF half THEN << >> ELSE streams
          /\ IF sender
             THEN /\ send_threads' = [id \in DOMAIN send_threads \ {h.key} |->
                                         send_threads[id]]
                  /\ threads' = Sweep(threads, sniff_threads, send_threads')
                  /\ UNCHANGED <<sniff_threads, collector, rdata>>
             ELSE /\ sniff_threads' = Remove(sniff_threads, h.thr)
                  /\ rdata' = IF caller.op = "stop_sniff"
                              THEN [i \in DOMAIN rdata \cup {h.key} |->
                                      IF i = h.key THEN GrabData(i) ELSE rdata[i]]
                              ELSE rdata
                  /\ collector' = [collector EXCEPT ![h.key] = << >>]
                  /\ threads' = Sweep(threads, sniff_threads', send_threads)
                  /\ UNCHANGED send_threads
    /\ UNCHANGED <<statvars, wire, sent, recv, tgfilter, err, tx, captured, nframes>>

\* cleanup: stop_streams(), self.streams = {}, stop_sniff().
Cleanup ==
    /\ caller.pc = "idle"
    /\ LET todo == StopStreamsTodo({})
       IN IF todo # << >>
          THEN /\ caller' = Begin("cleanup", {}, FALSE, todo)
               /\ streams' = streams
          ELSE /\ caller' = CleanupSniff
               /\ streams' = << >>
    /\ rdata' = << >>
    /\ err' = "none"
    /\ UNCHANGED <<statvars, wire, send_threads, sniff_threads, threads, collector,
                   sent, recv, tgfilter, tx, captured, nframes>>

\* ------------------------------------------- sender thread (send_stream)
\* A loop that makes one iteration more.
CountDoneLate(count, n) == count # None /\ n > count

\* itertools.takewhile(lambda x: x < count, count_iter); no bound for None.
CountDone(count, n) == count # None /\ n >= count

\* The injected SystemExit surfaces at the thread's next step; it is not an
\* Exception, so send_stream does not wrap it and the thread ends.
SenderStart(t) ==
    /\ t \in Senders
    /\ threads[t].pc = "start"
    /\ LET th == threads[t]
           sid == th.stream_id
       IN IF th.pending
          THEN /\ threads' = Die(t, "SystemExit")
               /\ UNCHANGED send_threads
          ELSE /\ send_threads' =
                    IF sid \in DOMAIN send_threads
                    THEN [send_threads EXCEPT ![sid].active = TRUE]
                    ELSE send_threads
               /\ threads' =
                    IF sid \in DOMAIN streams
                    THEN [threads EXCEPT ![t].pc = "loop",
                                         ![t].iface = streams[sid].iface,
                                         ![t].count = streams[sid].count,
                                         ![t].gen = streams[sid].incs # << >>,
                                         ![t].packet = streams[sid].packet,
                                         ![t].open = TRUE]
                    ELSE Die(t, "PypackerException")
    /\ UNCHANGED <<statvars, wire, streams, sniff_threads, collector, sent, recv, tgfilter,
                   caller, rdata, err, tx, captured, nframes>>

\* One stop_lock for all senders, held from the transmission to the end
\* of the increment.
StopLockShared(t) == \A u \in Senders \ {t} : threads[u].pc # "inc"

\* "with stop_lock" of _sendp can be entered: the lock is made by the
\* send_stream call of the thread itself, so no other thread ever holds it.
StopLockFree(t) == TRUE

\* ---------------------------------------------------- PacketGenerator
\* A generator that has a value left.
HasNext(g) == g.random \/ g.pos < Len(g.vals)

\* A zip that ends with its shortest sequence.
ExhaustedShortest(incs) == \E k \in DOMAIN incs : ~HasNext(incs[k])

\* itertools.zip_longest(*values) has no tuple left.
Exhausted(incs) == \A k \in DOMAIN incs : ~HasNext(incs[k])

\* The value zip_longest takes from a generator: its next one (rv of a
\* random one), None once it is exhausted.
MappedValue(g, rv) ==
    IF g.random THEN rv
    ELSE IF HasNext(g) THEN g.vals[g.pos + 1] ELSE None

\* The generators after zip_longest has taken one tuple.
Advance(incs) ==
    [k \in DOMAIN incs |->
        IF ~incs[k].random /\ HasNext(incs[k])
        THEN [incs[k] EXCEPT !.pos = @ + 1] ELSE incs[k]]

\* "if not value: continue"
Skipped(value) == value = None \/ value = 0

\* Padding that only ever grows the frame.
PaddedGrow(len, value) == IF len < value THEN len + (value - len) ELSE len

\* The length of packet_str + b"\x00" * (value - len), of packet_str[:value].
Padded(len, value) == IF len < value THEN len + (value - len) ELSE value

\* One (field, value) pair applied.  g.packet is self.packet, g.shared the
\* packet object of the stream; they are one object until a padding puts a
\* new Ethernet object into self.packet (own).
SetValue(g, field, value) ==
    IF Skipped(value) THEN g
    ELSE IF field = "padding"
         THEN [g EXCEPT !.packet = [@ EXCEPT !["len"] = Padded(@, value)],
                        !.own = TRUE]
         ELSE LET q == [g.packet EXCEPT ![field] = value]
              IN [g EXCEPT !.packet = q,
                           !.shared = IF g.own THEN @ ELSE q]

\* for field, value in zip_longest(fields, mapped_values), from pair k on.
RECURSIVE SetValues(_, _, _, _)
SetValues(g, incs, rv, k) ==
    IF k > Len(incs) THEN g
    ELSE SetValues(SetValue(g, incs[k].field, MappedValue(incs[k], rv)),
                   incs, rv, k + 1)

\* The values a random padding generator of the stream can yield next.
RandomValues(incs) ==
    IF \E k \in DOMAIN incs : incs[k].random
    THEN UNION {incs[k].lo .. incs[k].hi : k \in {j \in DOMAIN incs : incs[j].random}}
    ELSE {None}

\* self.packet of the PacketGenerator of sender th.
CurPacket(th) ==
    IF th.gen /\ ~th.own THEN streams[th.stream_id].packet ELSE th.packet

\* PacketGenerator.__next__ of sender th of a stream with increments.
NextPacket(th, rv) ==
    SetValues([packet |-> CurPacket(th), own |-> th.own,
               shared |-> streams[th.stream_id].packet],
              streams[th.stream_id].incs, rv, 1)

\* A sender that nothing but a stop call ends: no count, and no generator
\* that runs out.
Endless(th) ==
    /\ th.count = None
    /\ th.gen => \E k \in DOMAIN streams[th.stream_id].incs :
                     streams[th.stream_id].incs[k].random

\* One iteration of the for loop of _sendp up to s.send(next(p).bin()):
\* the count check, "with stop_lock" (a lock no other thread uses), the
\* transmission.  time.sleep(inter) of the previous iteration is part of
\* this step.  An endless sender is cut off after MaxCount iterations.
\* Without increments next(p) is the packet of the stream.  With increments
\* it changes the generators and the packet of the stream, which the sender
\* reaches through the stream entry; once no generator has a value left it
\* returns None, None.bin() raises AttributeError and send_stream wraps it.
SenderSend(t) ==
    /\ t \in Senders
    /\ threads[t].pc = "loop"
    /\ LET th == threads[t]
           sid == th.stream_id
       IN /\ th.gen => sid \in DOMAIN streams
          /\ th.pending \/ ~Endless(th) \/ th.n < MaxCount
          /\ th.pending \/ CountDone(th.count, th.n) \/ StopLockFree(t)
          /\ IF th.pending
             THEN /\ threads' = Die(t, "SystemExit")
                  /\ UNCHANGED <<tx, wire, streams>>
             ELSE IF CountDone(th.count, th.n)
                  THEN /\ threads' = Die(t, "none")
                       /\ UNCHANGED <<tx, wire, streams>>
                  ELSE IF ~th.gen
                       THEN /\ threads' = [threads EXCEPT ![t].pc = "inc",
                                                          ![t].txn = th.txn + 1]
                            /\ tx' = [tx EXCEPT ![th.iface] = tx[th.iface] + 1]
                            /\ wire' = [wire EXCEPT ![th.iface] = Append(@, th.packet)]
                            /\ UNCHANGED streams
                       ELSE IF Exhausted(streams[sid].incs)
                            THEN /\ threads' = Die(t, "PypackerException")
                                 /\ UNCHANGED <<tx, wire, streams>>
                            ELSE \E rv \in RandomValues(streams[sid].incs) :
                                   LET g == NextPacket(th, rv)
                                   IN /\ threads' = [threads EXCEPT
                                                       ![t].pc = "inc",
                                                       ![t].txn = th.txn + 1,
                                                       ![t].own = g.own,
                                                       ![t].packet = g.packet]
                                      /\ streams' = [streams EXCEPT
                                                       ![sid].incs = Advance(@),
                                                       ![sid].packet = g.shared]
                                      /\ tx' = [tx EXCEPT ![th.iface] = tx[th.iface] + 1]
                                      /\ wire' = [wire EXCEPT ![th.iface] =
                                                     Append(@, g.packet)]
    /\ UNCHANGED <<statvars, send_threads, sniff_threads, collector, sent, recv,
                   tgfilter, caller, rdata, err, captured, nframes>>

\* s.send raises: send_stream wraps it into PypackerException, the thread ends.
SenderSendError(t) ==
    /\ t \in Senders
    /\ threads[t].pc = "loop"
    /\ ~threads[t].pending
    /\ ~CountDone(threads[t].count, threads[t].n)
    /\ threads' = Die(t, "PypackerException")
    /\ UNCHANGED <<statvars, wire, streams, send_threads, sniff_threads, collector, sent, recv,
                   tgfilter, caller, rdata, err, tx, captured, nframes>>

\* BaseStatistics.increase(iface, count=1), under its lock.
Increase(data, iface) == [data EXCEPT ![iface] = data[iface] + 1]

\* self.sent_statistics.increase(iface)
SenderInc(t) ==
    /\ t \in Senders
    /\ threads[t].pc = "inc"
    /\ LET th == threads[t]
       IN IF th.pending
          THEN /\ threads' = Die(t, "SystemExit")
               /\ UNCHANGED sent
          ELSE /\ threads' = [threads EXCEPT ![t].pc = "loop", ![t].n = th.n + 1]
               /\ sent' = Increase(sent, th.iface)
    /\ UNCHANGED <<statvars, wire, streams, send_threads, sniff_threads, collector, recv,
                   tgfilter, caller, rdata, err, tx, captured, nframes>>

\* ------------------------------------------------------------ statistics
\* A clear that leaves the counter as it is.
ClearNothing(counters, iface) == counters

\* BaseStatistics.clear(iface), under its lock.
Clear(counters, iface) == [counters EXCEPT ![iface] = 0]

\* clear for every port of a list.
RECURSIVE ClearEach(_, _)
ClearEach(counters, ports) ==
    IF ports = {} THEN counters
    ELSE LET p == CHOOSE x \in ports : TRUE
         IN ClearEach(Clear(counters, p), ports \ {p})

ClearSentStatistics(sniff_port) ==
    /\ caller.pc = "idle"
    /\ sent' = Clear(sent, sniff_port)
    /\ caller' = Idle("clear_sent_statistics", {sniff_port}, FALSE)
    /\ err' = "none"
    /\ UNCHANGED <<statvars, wire, streams, send_threads, sniff_threads, threads,
                   collector, recv, tgfilter, rdata, tx, captured, nframes>>

ClearReceivedStatistics(sniff_port) ==
    /\ caller.pc = "idle"
    /\ recv' = Clear(recv, sniff_port)
    /\ caller' = Idle("clear_received_statistics", {sniff_port}, FALSE)
    /\ err' = "none"
    /\ UNCHANGED <<statvars, wire, streams, send_threads, sniff_threads, threads,
                   collector, sent, tgfilter, rdata, tx, captured, nframes>>

\* clear_statistics: both counters of every listed port.
ClearStatistics(sniff_port_list) ==
    /\ caller.pc = "idle"
    /\ sent' = ClearEach(sent, sniff_port_list)
    /\ recv' = ClearEach(recv, sniff_port_list)
    /\ caller' = Idle("clear_statistics", sniff_port_list, FALSE)
    /\ err' = "none"
    /\ UNCHANGED <<statvars, wire, streams, send_threads, sniff_threads, threads,
                   collector, tgfilter, rdata, tx, captured, nframes>>

\* ------------------------------------------- BaseStatistics, step by step
\* The methods of BaseStatistics as the interpreter runs them: a thread can
\* be switched out between any two of these steps.
StatOps == {"increase", "get_data", "clear"}

\* self.data.get(iface, 0)
Get(d, iface) == IF iface \in DOMAIN d THEN d[iface] ELSE 0

\* self.data[iface] = v
Put(d, iface, v) == [i \in DOMAIN d \cup {iface} |-> IF i = iface THEN v ELSE d[i]]

\* A "with" that does not wait for the lock.
LockIgnored == TRUE

\* A lock of its own for every interface: the "with" can be entered while a
\* thread working on another interface is inside.
LockPerIface ==
    IF lock = 0 THEN TRUE
    ELSE \E w \in Workers : calls[w].pc = "acquire" /\ calls[w].iface # calls[lock].iface

\* "with self._lock" can be entered.
LockFree == lock = 0

\* Worker w calls a method; no more than MaxCount increments since a clear.
StatCall(w, op, iface) ==
    /\ calls[w].pc = "idle"
    /\ op = "increase" => applied[iface] < MaxCount
    /\ calls' = [calls EXCEPT ![w] = [pc |-> "acquire", op |-> op, iface |-> iface,
                                      tmp |-> 0, ret |-> 0]]
    /\ UNCHANGED <<tgvars, statdata, lock, applied>>

StatAcquire(w) ==
    /\ calls[w].pc = "acquire"
    /\ LockFree
    /\ lock' = w
    /\ calls' = [calls EXCEPT ![w].pc = calls[w].op]
    /\ UNCHANGED <<tgvars, statdata, applied>>

\* increase, first half of "self.data[iface] += count": the defaultdict
\* inserts a missing key with 0, the value is loaded.
StatLoad(w) ==
    /\ calls[w].pc = "increase"
    /\ statdata' = Put(statdata, calls[w].iface, Get(statdata, calls[w].iface))
    /\ calls' = [calls EXCEPT ![w].pc = "store",
                              ![w].tmp = Get(statdata, calls[w].iface)]
    /\ UNCHANGED <<tgvars, lock, applied>>

\* increase, second half: the sum is stored.
StatStore(w) ==
    /\ calls[w].pc = "store"
    /\ statdata' = Put(statdata, calls[w].iface, calls[w].tmp + 1)
    /\ applied' = [applied EXCEPT ![calls[w].iface] = @ + 1]
    /\ calls' = [calls EXCEPT ![w].pc = "release"]
    /\ UNCHANGED <<tgvars, lock>>

\* get_data: return self.data.get(iface, 0)
StatRead(w) ==
    /\ calls[w].pc = "get_data"
    /\ calls' = [calls EXCEPT ![w].pc = "release",
                              ![w].ret = Get(statdata, calls[w].iface)]
    /\ UNCHANGED <<tgvars, statdata, lock, applied>>

\* clear: self.data[iface] = 0
StatClear(w) ==
    /\ calls[w].pc = "clear"
    /\ statdata' = Put(statdata, calls[w].iface, 0)
    /\ applied' = [applied EXCEPT ![calls[w].iface] = 0]
    /\ calls' = [calls EXCEPT ![w].pc = "release"]
    /\ UNCHANGED <<tgvars, lock>>

\* The end of the "with" block, and the return.
StatRelease(w) ==
    /\ calls[w].pc = "release"
    /\ lock' = 0
    /\ calls' = [calls EXCEPT ![w] = NoCall]
    /\ UNCHANGED <<tgvars, statdata, applied>>

\* ---------------------------------------------- sniffer thread (_sniffer)
\* Everything before the loop: clear the received counter, pick the filter
\* (a triple is stored in the TG object), open the capture handle.
SnifferStart(t) ==
    /\ t \in Sniffers
    /\ threads[t].pc = "start"
    /\ LET th == threads[t]
       IN IF th.pending
          THEN /\ threads' = Die(t, "KeyboardInterrupt")
               /\ UNCHANGED <<recv, tgfilter>>
          ELSE /\ threads' = [threads EXCEPT ![t].pc = "loop", ![t].open = TRUE]
               /\ recv' = Clear(recv, th.port)
               /\ tgfilter' = IF th.filter # "None" THEN th.filter ELSE tgfilter
    /\ UNCHANGED <<statvars, wire, streams, send_threads, sniff_threads, collector, sent,
                   caller, rdata, err, tx, captured, nframes>>

\* open_live / setfilter raises PcapError: the thread ends with it.
SnifferOpenError(t) ==
    /\ t \in Sniffers
    /\ threads[t].pc = "start"
    /\ ~threads[t].pending
    /\ LET th == threads[t]
       IN /\ threads' = Die(t, "PcapError")
          /\ recv' = Clear(recv, th.port)
          /\ tgfilter' = IF th.filter # "None" THEN th.filter ELSE tgfilter
    /\ UNCHANGED <<statvars, wire, streams, send_threads, sniff_threads, collector, sent,
                   caller, rdata, err, tx, captured, nframes>>

\* zip(timeout_iter, port_data_iter) has another element.
SniffGoesOn(th) ==
    /\ ~(th.timeout # None /\ th.expired)
    /\ ~(th.count # 0 /\ recv[th.port] >= th.count)

\* Top of the for loop of _sniffer, then "with stop_lock".  An injected
\* KeyboardInterrupt is suppressed and the thread ends.
SnifferLoop(t) ==
    /\ t \in Sniffers
    /\ threads[t].pc = "loop"
    /\ LET th == threads[t]
       IN threads' =
            IF th.pending THEN Die(t, "KeyboardInterrupt")
            ELSE IF SniffGoesOn(th)
                 THEN [threads EXCEPT ![t].pc = "dispatch"]
                 ELSE Die(t, "none")
    /\ UNCHANGED <<statvars, wire, streams, send_threads, sniff_threads, collector, sent, recv,
                   tgfilter, caller, rdata, err, tx, captured, nframes>>

\* start_time + timeout is reached.
Tick(t) ==
    /\ t \in Sniffers
    /\ threads[t].pc \in {"loop", "dispatch"}
    /\ threads[t].timeout # None
    /\ ~threads[t].expired
    /\ threads' = [threads EXCEPT ![t].expired = TRUE]
    /\ UNCHANGED <<statvars, wire, streams, send_threads, sniff_threads, collector, sent, recv,
                   tgfilter, caller, rdata, err, tx, captured, nframes>>

\* custom_packet_filter compares the frame with the triple stored in the TG.
Matches(kind, flt) ==
    \/ flt = "F1" /\ kind = "f1"
    \/ flt = "F2" /\ kind = "f2"

\* A packet_filter that lets every frame pass.
PacketFilterAny(th, kind) == TRUE

\* packet_filter: lambda_filter is None, or self.custom_packet_filter.
PacketFilter(th, kind) == th.filter = "None" \/ Matches(kind, tgfilter)

\* A collector that puts the newest frame first.
CollectFront(data, sniff_port, pkt) ==
    [data EXCEPT ![sniff_port] = <<pkt>> \o data[sniff_port]]

\* Collector.collect
Collect(data, sniff_port, pkt) ==
    [data EXCEPT ![sniff_port] = Append(data[sniff_port], pkt)]

\* put_to_collector, called by pc.dispatch for one frame.
PutToCollector(th, pkt, kind) ==
    IF PacketFilter(th, kind)
    THEN /\ collector' = Collect(collector, th.port, pkt)
         /\ recv' = Increase(recv, th.port)
         /\ captured' = [captured EXCEPT ![th.port] = Append(captured[th.port], pkt)]
    ELSE UNCHANGED <<collector, recv, captured>>

\* The capture primitive delivers one frame inside pc.dispatch.
Deliver(t, kind) ==
    /\ t \in Sniffers
    /\ threads[t].pc = "dispatch"
    /\ nframes < MaxFrames
    /\ nframes' = nframes + 1
    /\ PutToCollector(threads[t], nframes + 1, kind)
    /\ UNCHANGED <<statvars, wire, streams, send_threads, sniff_threads, threads, sent,
                   tgfilter, caller, rdata, err, tx>>

\* put_to_collector in its two halves, for one frame that passes the
\* filter: self._collector.collect(sniff_port, pkt), then
\* self.receive_statistics.increase(sniff_port, 1).  An exception injected
\* into the thread surfaces at its next instruction, wherever it is.
DeliverCollect(t, kind) ==
    /\ t \in Sniffers
    /\ threads[t].pc = "dispatch"
    /\ nframes < MaxFrames
    /\ LET th == threads[t]
       IN IF th.pending
          THEN /\ threads' = Die(t, "KeyboardInterrupt")
               /\ UNCHANGED <<collector, captured, nframes>>
          ELSE /\ nframes' = nframes + 1
               /\ IF PacketFilter(th, kind)
                  THEN /\ collector' = Collect(collector, th.port, nframes + 1)
                       /\ captured' = [captured EXCEPT ![th.port] = Append(@, nframes + 1)]
                       /\ threads' = [threads EXCEPT ![t].pc = "counting"]
                  ELSE UNCHANGED <<collector, captured, threads>>
    /\ UNCHANGED <<statvars, wire, streams, send_threads, sniff_threads, sent, recv,
                   tgfilter, caller, rdata, err, tx>>

DeliverCount(t) ==
    /\ t \in Sniffers
    /\ threads[t].pc = "counting"
    /\ LET th == threads[t]
       IN IF th.pending
          THEN /\ threads' = Die(t, "KeyboardInterrupt")
               /\ UNCHANGED recv
          ELSE /\ recv' = Increase(recv, th.port)
               /\ threads' = [threads EXCEPT ![t].pc = "dispatch"]
    /\ UNCHANGED <<statvars, wire, streams, send_threads, sniff_threads, collector, sent,
                   tgfilter, caller, rdata, err, tx, captured, nframes>>

\* pc.dispatch returns (a PcapError is suppressed), stop_lock is released,
\* time.sleep(0.01).
DispatchReturn(t) ==
    /\ t \in Sniffers
    /\ threads[t].pc = "dispatch"
    /\ threads' = [threads EXCEPT ![t].pc = "loop"]
    /\ UNCHANGED <<statvars, wire, streams, send_threads, sniff_threads, collector, sent, recv,
                   tgfilter, caller, rdata, err, tx, captured, nframes>>

\* A dispatch call whose PcapError ends the sniffer.
DispatchRaised(t) == [Die(t, "PcapError") EXCEPT ![t].failed = TRUE]

\* "with stop_lock, suppress(self.pcap.PcapError)": the thread after a
\* dispatch call that raised PcapError.
DispatchSuppressed(t) == [threads EXCEPT ![t].pc = "loop", ![t].failed = TRUE]

\* pc.dispatch raises PcapError.
DispatchError(t) ==
    /\ t \in Sniffers
    /\ threads[t].pc = "dispatch"
    /\ threads' = DispatchSuppressed(t)
    /\ UNCHANGED <<statvars, wire, streams, send_threads, sniff_threads, collector, sent, recv,
                   tgfilter, caller, rdata, err, tx, captured, nframes>>

\* The capture handle of a sniffer that has ended is an object nothing
\* refers to any more; the runtime releases it when it collects it.
Release(t) ==
    /\ t \in Sniffers
    /\ ~Alive(t)
    /\ threads[t].open
    /\ threads' = [threads EXCEPT ![t].open = FALSE]
    /\ UNCHANGED <<statvars, wire, streams, send_threads, sniff_threads, collector, sent, recv,
                   tgfilter, caller, rdata, err, tx, captured, nframes>>

\* The capture primitive never returns from this dispatch call.
DispatchBlock(t) ==
    /\ t \in Sniffers
    /\ threads[t].pc = "dispatch"
    /\ threads' = [threads EXCEPT ![t].pc = "blocked"]
    /\ UNCHANGED <<statvars, wire, streams, send_threads, sniff_threads, collector, sent, recv,
                   tgfilter, caller, rdata, err, tx, captured, nframes>>

\* ------------------------------------------------- custom_packet_filter
\* Strings of hex digits are sequences of one-character strings; the value
\* of the digits 0, 1 and F.
HexValue(c) == IF c = "0" THEN 0 ELSE IF c = "1" THEN 1 ELSE 15

\* All strings over the characters C of the lengths in N.
Strings(C, N) == UNION {[1..n -> C] : n \in N}

\* The frames a sniffer is given: pkt.bin() of up to MaxBytes bytes, as
\* codecs.encode(..., "hex_codec").decode() shows them.
Frames == Strings({"0", "1"}, {2 * n : n \in 1..MaxBytes})

\* The filter triples (filter_offset, filter_data, filter_mask): a mask of
\* the digits 0 and F, data of the same length.
FilterTriples ==
    {f \in {[offset |-> o, data |-> d, mask |-> m] :
               o \in 0..(MaxBytes - 1),
               d \in Strings({"0", "1"}, 1..3),
               m \in Strings({"0", "F"}, 1..3)} : Len(f.data) = Len(f.mask)}

\* str.replace(old, new) for single characters; new = "" removes them.
Replace(str, old, new) ==
    IF new = "" THEN SelectSeq(str, LAMBDA c : c # old)
    ELSE [k \in DOMAIN str |-> IF str[k] = old THEN new ELSE str[k]]

\* int('0x{}'.format(hex_str), 16) of a string that has a digit.
RECURSIVE HexStrToInt(_)
HexStrToInt(hex_str) ==
    IF hex_str = << >> THEN 0
    ELSE 16 * HexStrToInt(SubSeq(hex_str, 1, Len(hex_str) - 1))
         + HexValue(hex_str[Len(hex_str)])

\* a & b
RECURSIVE BitAnd(_, _)
BitAnd(a, b) ==
    IF a = 0 \/ b = 0 THEN 0
    ELSE (a % 2) * (b % 2) + 2 * BitAnd(a \div 2, b \div 2)

\* s[i:j] of a string, 0-based as in the code.
Slice(str, i, j) ==
    IF i >= Len(str) THEN << >>
    ELSE SubSeq(str, i + 1, IF j < Len(str) THEN j ELSE Len(str))

\* custom_packet_filter(pkt) with the triple stored in the TG: "pkt" when
\* the frame is returned, "None" when it is not, "ValueError" when int()
\* is given the empty string.
CustomPacketFilter(pkt) ==
    LET mask == Replace(Replace(Replace(Replace(tgfilter.mask, " ", ""),
                                        "0", "1"), "F", "0"), "1", "F")
        data == Replace(tgfilter.data, " ", "")
        pkt_hex == Slice(pkt, 2 * tgfilter.offset, 2 * tgfilter.offset + Len(mask))
        mask_hex == HexStrToInt(mask)
    IN IF pkt_hex = << >> THEN "ValueError"
       ELSE IF BitAnd(mask_hex, HexStrToInt(pkt_hex))
               = BitAnd(mask_hex, HexStrToInt(data))
            THEN "pkt" ELSE "None"

\* A sniffer on "a" started with a filter triple, inside its first
\* dispatch call.
InitFilter ==
    /\ streams = << >>
    /\ send_threads = << >>
    /\ sniff_threads = <<1>>
    /\ tgfilter \in FilterTriples
    /\ threads = <<[NewSniffer("a", 0, None, tgfilter) EXCEPT !.pc = "dispatch",
                                                              !.open = TRUE]>>
    /\ collector = [i \in Ifaces |-> << >>]
    /\ sent = [i \in Ifaces |-> 0]
    /\ recv = [i \in Ifaces |-> 0]
    /\ caller = Idle("start_sniff", {"a"}, FALSE)
    /\ rdata = << >>
    /\ err = "none"
    /\ tx = [i \in Ifaces |-> 0]
    /\ captured = [i \in Ifaces |-> << >>]
    /\ nframes = 0
    /\ wire = [i \in Ifaces |-> << >>]
    /\ statdata = << >>
    /\ lock = 0
    /\ calls = [w \in Workers |-> NoCall]
    /\ applied = [i \in Ifaces |-> 0]

\* put_to_collector for frame pkt with lambda_filter = custom_packet_filter;
\* an exception of the filter leaves the callback and dispatch and ends the
\* thread (only PcapError and KeyboardInterrupt are suppressed).
CustomDeliver(t, pkt) ==
    /\ t \in Sniffers
    /\ threads[t].pc = "dispatch"
    /\ nframes = 0
    /\ nframes' = nframes + 1
    /\ LET res == CustomPacketFilter(pkt)
           port == threads[t].port
       IN IF res = "ValueError"
          THEN /\ threads' = Die(t, "ValueError")
               /\ UNCHANGED <<collector, recv, captured>>
          ELSE IF res = "pkt"
               THEN /\ collector' = Collect(collector, port, pkt)
                    /\ recv' = Increase(recv, port)
                    /\ captured' = [captured EXCEPT ![port] = Append(@, pkt)]
                    /\ UNCHANGED threads
               ELSE UNCHANGED <<collector, recv, captured, threads>>
    /\ UNCHANGED <<statvars, wire, streams, send_threads, sniff_threads, sent,
                   tgfilter, caller, rdata, err, tx>>

\* ------------------------------------------------------------------ Next
ThreadIds == 1..MaxThreads

\* Every stream is defined on interface "a", with count MaxCount.
StreamCalls ==
    \/ NextStreamId <= MaxStreams
       /\ \E cont \in BOOLEAN : SetPlainStream("a", MaxCount, cont)
    \/ \E L \in SUBSET StreamIds \ {{}} : StartStreams(L)
    \/ StartStreamsActivated
    \/ StartStreamsTimeout
    \/ \E L \in SUBSET StreamIds : StopStreams(L)

SenderSteps ==
    \/ \E t \in ThreadIds : SenderStart(t)
    \/ \E t \in ThreadIds : SenderSend(t)
    \/ \E t \in ThreadIds : SenderSendError(t)
    \/ \E t \in ThreadIds : SenderInc(t)

CallerSteps == CallerTerm \/ CallerInject \/ CallerJoin

\* Senders only: the stream table, start_streams, stop_streams.
NextSend ==
    \/ StreamCalls
    \/ CallerSteps
    \/ SenderSteps

SpecSend == Init /\ [][NextSend]_vars

\* Sniffers only, started without a filter; every dispatch call returns.
NextSniff ==
    \/ \E S \in SUBSET Ifaces \ {{}}, c \in PacketCounts, to \in Timeouts :
          StartSniff(S, c, to, "None")
    \/ \E S \in SUBSET Ifaces, force \in BOOLEAN : StopSniff(S, force)
    \/ CallerSteps
    \/ \E t \in ThreadIds : SnifferStart(t)
    \/ \E t \in ThreadIds : SnifferOpenError(t)
    \/ \E t \in ThreadIds : SnifferLoop(t)
    \/ \E t \in ThreadIds : Tick(t)
    \/ \E t \in ThreadIds, k \in FrameKinds : Deliver(t, k)
    \/ \E t \in ThreadIds : DispatchReturn(t)

SpecSniff == Init /\ [][NextSniff]_vars

\* Sniffers only, started without bounds, with and without a filter triple.
NextCapture ==
    \/ \E S \in SUBSET Ifaces \ {{}}, f \in Filters : StartSniff(S, 0, None, f)
    \/ \E S \in SUBSET Ifaces, force \in BOOLEAN : StopSniff(S, force)
    \/ CallerSteps
    \/ \E t \in ThreadIds : SnifferStart(t)
    \/ \E t \in ThreadIds : SnifferLoop(t)
    \/ \E t \in ThreadIds, k \in FrameKinds : Deliver(t, k)
    \/ \E t \in ThreadIds : DispatchReturn(t)

SpecCapture == Init /\ [][NextCapture]_vars

\* Sniffers without a filter, unbounded or bounded by a count of one frame,
\* started and stopped per interface, with and without force.
NextDrain ==
    \/ \E S \in SUBSET Ifaces \ {{}}, c \in PacketCounts : StartSniff(S, c, None, "None")
    \/ \E S \in SUBSET Ifaces, force \in BOOLEAN : StopSniff(S, force)
    \/ CallerSteps
    \/ \E t \in ThreadIds : SnifferStart(t)
    \/ \E t \in ThreadIds : SnifferLoop(t)
    \/ \E t \in ThreadIds : Deliver(t, "f1")
    \/ \E t \in ThreadIds : DispatchReturn(t)

SpecDrain == Init /\ [][NextDrain]_vars

\* Senders beside sniffers on "a" or on both interfaces: no transmission or
\* capture error, no timeout, no forced stop, no stop_streams, and no frame
\* arrives.
NextBoth ==
    \/ NextStreamId <= MaxStreams
       /\ \E cont \in BOOLEAN : SetPlainStream("a", MaxCount, cont)
    \/ \E L \in SUBSET StreamIds \ {{}} : StartStreams(L)
    \/ StartStreamsActivated
    \/ StartStreamsTimeout
    \/ \E S \in {{"a"}, Ifaces} : StartSniff(S, 0, None, "None")
    \/ \E S \in SUBSET Ifaces : StopSniff(S, FALSE)
    \/ CallerSteps
    \/ \E t \in ThreadIds : SenderStart(t)
    \/ \E t \in ThreadIds : SenderSend(t)
    \/ \E t \in ThreadIds : SenderInc(t)
    \/ \E t \in ThreadIds : SnifferStart(t)
    \/ \E t \in ThreadIds : SnifferLoop(t)
    \/ \E t \in ThreadIds : DispatchReturn(t)

SpecBoth == Init /\ [][NextBoth]_vars

\* Threads that end on their own: senders of streams with a finite count
\* (count reached, transmission error, stream not defined) and sniffers
\* (timeout, capture error); the caller stops sniffers only, without force.
NextExit ==
    \/ NextStreamId <= MaxStreams /\ SetPlainStream("a", MaxCount, FALSE)
    \/ \E L \in SUBSET StreamIds \ {{}} : StartStreams(L)
    \/ StartStreamsActivated
    \/ StartStreamsTimeout
    \/ \E S \in SUBSET Ifaces \ {{}}, to \in Timeouts : StartSniff(S, 0, to, "None")
    \/ \E S \in SUBSET Ifaces : StopSniff(S, FALSE)
    \/ CallerSteps
    \/ SenderSteps
    \/ \E t \in ThreadIds : SnifferStart(t)
    \/ \E t \in ThreadIds : SnifferOpenError(t)
    \/ \E t \in ThreadIds : SnifferLoop(t)
    \/ \E t \in ThreadIds : Tick(t)
    \/ \E t \in ThreadIds : DispatchReturn(t)

SpecExit == Init /\ [][NextExit]_vars

\* cleanup after senders of a stream on "a", started for defined and for
\* undefined ids, once or twice, and after a sniffer on "a".
NextClean ==
    \/ NextStreamId <= MaxStreams
       /\ \E cont \in BOOLEAN : SetPlainStream("a", MaxCount, cont)
    \/ \E L \in SUBSET StreamIds \ {{}} : StartStreams(L)
    \/ StartStreamsActivated
    \/ StartStreamsTimeout
    \/ \E to \in Timeouts : StartSniff({"a"}, 0, to, "None")
    \/ Cleanup
    \/ CallerSteps
    \/ \E t \in ThreadIds : SenderStart(t)
    \/ \E t \in ThreadIds : SenderSend(t)
    \/ \E t \in ThreadIds : SenderInc(t)
    \/ \E t \in ThreadIds : SnifferStart(t)
    \/ \E t \in ThreadIds : SnifferLoop(t)
    \/ \E t \in ThreadIds : Tick(t)
    \/ \E t \in ThreadIds : DispatchReturn(t)

SpecClean == Init /\ [][NextClean]_vars

\* The counters of "a" under every call: senders of one stream with a
\* finite count, a sniffer without bounds or filter that receives frames,
\* the stop calls, cleanup and the three clear calls.
NextCount ==
    \/ streams = << >> /\ SetPlainStream("a", MaxCount, FALSE)
    \/ StartStreams({1})
    \/ StartStreamsActivated
    \/ StartStreamsTimeout
    \/ StopStreams({})
    \/ StartSniff({"a"}, 0, None, "None")
    \/ StopSniff({"a"}, FALSE)
    \/ Cleanup
    \/ ClearSentStatistics("a")
    \/ ClearReceivedStatistics("a")
    \/ ClearStatistics({"a"})
    \/ CallerSteps
    \/ \E t \in ThreadIds : SenderStart(t)
    \/ \E t \in ThreadIds : SenderSend(t)
    \/ \E t \in ThreadIds : SenderInc(t)
    \/ \E t \in ThreadIds : SnifferStart(t)
    \/ \E t \in ThreadIds : SnifferLoop(t)
    \/ \E t \in ThreadIds : Deliver(t, "f1")
    \/ \E t \in ThreadIds : DispatchReturn(t)

SpecCount == Init /\ [][NextCount]_vars

\* Two streams with finite counts, one on "a" and one on "b", started by
\* one start_streams call; no transmission fails and nobody stops them.
NextPair ==
    \/ streams = << >> /\ \E n \in 1..MaxCount : SetPlainStream("a", n, FALSE)
    \/ DOMAIN streams = {1} /\ \E n \in 1..MaxCount : SetPlainStream("b", n, FALSE)
    \/ DOMAIN streams = {1, 2} /\ threads = << >> /\ StartStreams({1, 2})
    \/ StartStreamsActivated
    \/ StartStreamsTimeout
    \/ \E t \in ThreadIds : SenderStart(t)
    \/ \E t \in ThreadIds : SenderSend(t)
    \/ \E t \in ThreadIds : SenderInc(t)

\* The steps of sender thread t when nothing fails.
SenderStep(t) == SenderStart(t) \/ SenderSend(t) \/ SenderInc(t)

\* The scheduler lets every thread that can run do so again and again.
SpecPair ==
    Init /\ [][NextPair]_vars /\ \A t \in ThreadIds : WF_vars(SenderStep(t))

\* The increment arguments and required_size tuples of the streams below:
\* (step, count) pairs; sizes from 10 to 50 in steps of 10, from 50 down to
\* 10 in steps of 20, and random sizes of 10 or 11.
Steps == {NoIncrement, Increment(<<1, 1>>), Increment(<<1, 2>>), Increment(<<-1, 2>>)}
PadUp == TupleSize("Increment", <<10, 10, 50>>)
PadDown == TupleSize("Increment", <<-20, 10, 50>>)
PadRandom == TupleSize("Random", <<10, 11>>)

\* What set_stream refuses: tuples that are too short, of an unknown kind,
\* empty, or with max below min; increments of fewer than two elements.
BadSizes ==
    {TupleSize("()", << >>), TupleSize("Increment", <<10, 10>>),
     TupleSize("Random", <<10>>), TupleSize("Fixed", <<10, 10, 50>>),
     TupleSize("Increment", <<10, 50, 10>>), TupleSize("Random", <<11, 10>>)}
BadSteps == {Increment(<< >>), Increment(<<1>>)}

\* One sender of one stream.
OneSender ==
    \/ DOMAIN streams = {1} /\ threads = << >> /\ StartStreams({1})
    \/ StartStreamsActivated
    \/ StartStreamsTimeout
    \/ \E t \in ThreadIds : SenderStart(t)
    \/ \E t \in ThreadIds : SenderSend(t)
    \/ \E t \in ThreadIds : SenderInc(t)

\* One stream of the default size on "a" with increments of the Ethernet
\* type and of ip.tos, sent once; no transmission fails.
NextGen ==
    \/ /\ streams = << >>
       /\ \E n \in 1..MaxCount, cont \in BOOLEAN, e \in Steps, d \in Steps :
             SetStream("a", n, cont, IntSize, e, d)
    \/ OneSender

SpecGen == Init /\ [][NextGen]_vars

\* One stream on "a" with a padding generator, with and without an increment
\* of the Ethernet type, sent once with a count up to MaxCount or of five.
NextPad ==
    \/ /\ streams = << >>
       /\ \E n \in 1..MaxCount \cup {5}, cont \in BOOLEAN,
             rs \in {PadUp, PadDown, PadRandom},
             e \in {NoIncrement, Increment(<<1, 2>>)} :
             SetStream("a", n, cont, rs, e, NoIncrement)
    \/ OneSender

SpecPad == Init /\ [][NextPad]_vars

\* The (required_size, eth_type_increment, dscp_increment) arguments of the
\* set_stream calls of SpecDefine: the well-formed ones, and malformed sizes
\* and increments beside well-formed other arguments.
DefineArgs ==
    ({IntSize, PadUp, PadDown, PadRandom} \X Steps \X {NoIncrement, Increment(<<1, 2>>)})
    \cup (BadSizes \X {NoIncrement, Increment(<<1, 2>>)} \X {NoIncrement})
    \cup ({IntSize, PadUp} \X BadSteps \X {NoIncrement, Increment(<<1, 2>>)})
    \cup ({IntSize} \X {NoIncrement, Increment(<<1, 2>>)} \X BadSteps)

\* set_stream on "a" with well-formed and with malformed arguments, up to
\* MaxStreams streams in the table.
NextDefine ==
    \E cont \in BOOLEAN, a \in DefineArgs :
       /\ IF StreamError(a[1], a[2], a[3]) THEN TRUE ELSE NextStreamId <= MaxStreams
       /\ SetStream("a", 1, cont, a[1], a[2], a[3])

SpecDefine == Init /\ [][NextDefine]_vars

\* start_streams and the senders it starts, for defined and undefined ids,
\* with transmissions that fail; the wait loop of the caller always gets
\* its turn, the senders need not get theirs.
NextStart ==
    \/ NextStreamId <= MaxStreams
       /\ \E cont \in BOOLEAN : SetPlainStream("a", MaxCount, cont)
    \/ \E L \in SUBSET StreamIds \ {{}} : StartStreams(L)
    \/ StartStreamsActivated
    \/ StartStreamsTimeout
    \/ SenderSteps

SpecStart ==
    /\ Init
    /\ [][NextStart]_vars
    /\ WF_vars(StartStreamsActivated \/ StartStreamsTimeout)

\* Sniffers on "a" with every combination of bounds, stopped with and
\* without force; frames may arrive or not, a dispatch call may fail but
\* always returns.  Every thread gets its turn, timeouts elapse, and the
\* caller gets the lock of terminate() whenever it is free often enough.
NextWatch ==
    \/ \E c \in PacketCounts, to \in Timeouts : StartSniff({"a"}, c, to, "None")
    \/ \E S \in {{}, {"a"}}, force \in BOOLEAN : StopSniff(S, force)
    \/ CallerSteps
    \/ \E t \in ThreadIds : SnifferStart(t)
    \/ \E t \in ThreadIds : SnifferOpenError(t)
    \/ \E t \in ThreadIds : SnifferLoop(t)
    \/ \E t \in ThreadIds : Tick(t)
    \/ \E t \in ThreadIds : Deliver(t, "f1")
    \/ \E t \in ThreadIds : DispatchReturn(t)
    \/ \E t \in ThreadIds : DispatchError(t)
    \/ \E t \in ThreadIds : Release(t)

SpecWatch ==
    /\ Init
    /\ [][NextWatch]_vars
    /\ WF_vars(CallerTerm)
    /\ SF_vars(CallerInject)
    /\ WF_vars(CallerJoin)
    /\ \A t \in ThreadIds :
          /\ WF_vars(SnifferStart(t) \/ SnifferLoop(t) \/ DispatchReturn(t))
          /\ WF_vars(Tick(t))

\* Streams defined while a sender and a sniffer run, and cleared by cleanup:
\* plain streams on "a", one sender of stream 1, one unbounded sniffer on
\* "a"; set_stream is called with a valid and with a malformed size.
NextTable ==
    \/ /\ IF NextStreamId <= MaxStreams + 1 THEN TRUE ELSE streams = << >>
       /\ \E cont \in BOOLEAN, size \in {IntSize, TupleSize("()", << >>)} :
             SetStream("a", 1, cont, size, NoIncrement, NoIncrement)
    \/ threads = << >> /\ StartStreams({1})
    \/ StartStreamsActivated
    \/ StartStreamsTimeout
    \/ sniff_threads = << >> /\ StartSniff({"a"}, 0, None, "None")
    \/ Cleanup
    \/ CallerSteps
    \/ \E t \in ThreadIds : SenderStart(t)
    \/ \E t \in ThreadIds : SenderSend(t)
    \/ \E t \in ThreadIds : SenderInc(t)
    \/ \E t \in ThreadIds : SnifferStart(t)
    \/ \E t \in ThreadIds : SnifferLoop(t)
    \/ \E t \in ThreadIds : Deliver(t, "f1")
    \/ \E t \in ThreadIds : DispatchReturn(t)

SpecTable == Init /\ [][NextTable]_vars

\* One frame given to the filter function of a running sniffer, for every
\* frame and every filter triple.
NextFilter ==
    \/ \E pkt \in Frames : CustomDeliver(1, pkt)
    \/ \E t \in ThreadIds : DispatchReturn(t)

SpecFilter == InitFilter /\ [][NextFilter]_vars

\* One sniffer at a time on "a", with and without bounds, stopped with and
\* without force; put_to_collector is taken in its two halves.
NextForce ==
    \/ \E c \in PacketCounts, to \in Timeouts : StartSniff({"a"}, c, to, "None")
    \/ \E force \in BOOLEAN : StopSniff({"a"}, force)
    \/ CallerSteps
    \/ \E t \in ThreadIds : SnifferStart(t)
    \/ \E t \in ThreadIds : SnifferLoop(t)
    \/ \E t \in ThreadIds : Tick(t)
    \/ \E t \in ThreadIds : DeliverCollect(t, "f1")
    \/ \E t \in ThreadIds : DeliverCount(t)
    \/ \E t \in ThreadIds : DispatchReturn(t)

SpecForce == Init /\ [][NextForce]_vars

\* MultipleTG.stop_streams with and without a list, over a member with one
\* plain stream and its sender.
NextMulti ==
    \/ streams = << >> /\ \E cont \in BOOLEAN : SetPlainStream("a", MaxCount, cont)
    \/ DOMAIN streams = {1} /\ send_threads = << >> /\ StartStreams({1})
    \/ StartStreamsActivated
    \/ StartStreamsTimeout
    \/ \E L \in {NoList, TheList({}), TheList({Port(1, 1)})} : MultiStopStreams(L)
    \/ CallerSteps
    \/ \E t \in ThreadIds : SenderStart(t)
    \/ \E t \in ThreadIds : SenderSend(t)
    \/ \E t \in ThreadIds : SenderInc(t)

SpecMulti == Init /\ [][NextMulti]_vars

\* sanitize with a sender of one plain stream and an unbounded sniffer on
\* "a" that may be running.  Every thread and the caller get their turn and
\* every dispatch call returns.
NextSanitize ==
    \/ streams = << >> /\ \E cont \in BOOLEAN : SetPlainStream("a", MaxCount, cont)
    \/ DOMAIN streams = {1} /\ send_threads = << >> /\ StartStreams({1})
    \/ StartStreamsActivated
    \/ StartStreamsTimeout
    \/ sniff_threads = << >> /\ StartSniff({"a"}, 0, None, "None")
    \/ Sanitize
    \/ CallerSteps
    \/ \E t \in ThreadIds : SenderStart(t)
    \/ \E t \in ThreadIds : SenderSend(t)
    \/ \E t \in ThreadIds : SenderInc(t)
    \/ \E t \in ThreadIds : SnifferStart(t)
    \/ \E t \in ThreadIds : SnifferLoop(t)
    \/ \E t \in ThreadIds : Deliver(t, "f1")
    \/ \E t \in ThreadIds : DispatchReturn(t)

SpecSanitize ==
    /\ Init
    /\ [][NextSanitize]_vars
    /\ WF_vars(CallerTerm)
    /\ SF_vars(CallerInject)
    /\ WF_vars(CallerJoin)
    /\ \A t \in ThreadIds :
          /\ WF_vars(SenderStart(t) \/ SenderSend(t) \/ SenderInc(t))
          /\ WF_vars(SnifferStart(t) \/ SnifferLoop(t) \/ DispatchReturn(t))

\* One statistics tracker called by MaxThreads threads at once.
NextStats ==
    \/ \E w \in Workers, op \in StatOps, i \in Ifaces : StatCall(w, op, i)
    \/ \E w \in Workers : StatAcquire(w)
    \/ \E w \in Workers : StatLoad(w)
    \/ \E w \in Workers : StatStore(w)
    \/ \E w \in Workers : StatRead(w)
    \/ \E w \in Workers : StatClear(w)
    \/ \E w \in Workers : StatRelease(w)

SpecStats == Init /\ [][NextStats]_vars

\* Senders and sniffers together, with every way a thread can end; the
\* sniffers have no count bound and no filter, and no frame arrives.
Next ==
    \/ StreamCalls
    \/ \E S \in SUBSET Ifaces \ {{}}, to \in Timeouts : StartSniff(S, 0, to, "None")
    \/ \E S \in SUBSET Ifaces, force \in BOOLEAN : StopSniff(S, force)
    \/ CallerSteps
    \/ SenderSteps
    \/ \E t \in ThreadIds : SnifferStart(t)
    \/ \E t \in ThreadIds : SnifferOpenError(t)
    \/ \E t \in ThreadIds : SnifferLoop(t)
    \/ \E t \in ThreadIds : Tick(t)
    \/ \E t \in ThreadIds : DispatchReturn(t)
    \/ \E t \in ThreadIds : DispatchBlock(t)

Spec == Init /\ [][Next]_vars

\* ================================================================ claims
\* The running sniffers and the running senders of an interface, and the
\* positions of _sniff_threads that hold a sniffer of the interface.
SniffersOn(i) == {t \in Sniffers : Alive(t) /\ threads[t].port = i}
SendersOn(i) == {t \in Senders : Alive(t) /\ threads[t].iface = i}
RegisteredOn(i) ==
    {k \in 1..Len(sniff_threads) : threads[sniff_threads[k]].port = i}

\* A step that is a start_sniff call for the interfaces S: the caller
\* returns from start_sniff(S), and the step is not one of a thread.
StartSniffStep(S) ==
    /\ caller.pc = "idle"
    /\ caller'.op = "start_sniff"
    /\ caller'.arg = S
    /\ caller' # caller \/ err' # err \/ Len(threads') > Len(threads)

C2_SenderBlocksSniff ==
    [][\A S \in SUBSET Ifaces :
          StartSniffStep(S) /\ (\E i \in S : SendersOn(i) # {})
          => /\ err' = "PypackerException"
             /\ sniff_threads' = sniff_threads
             /\ send_threads' = send_threads]_vars

\* C2: start_sniff for interfaces none of which has a registered sniffer
\* succeeds although a sender runs on one of them: a sniffer is started on
\* each, and the senders and their registry are as before.
C2_SniffBesideSender ==
    [][\A S \in SUBSET Ifaces :
          /\ StartSniffStep(S)
          /\ \E i \in S : SendersOn(i) # {}
          /\ \A i \in S : RegisteredOn(i) = {}
          => /\ err' = "none"
             /\ \A i \in S : \E t \in Sniffers' \ Sniffers :
                    threads'[t].port = i /\ t \in Range(sniff_threads')
             /\ send_threads' = send_threads
             /\ \A t \in Senders : threads'[t] = threads[t]]_vars

\* A sniffer registered after a sender of the same interface had started,
\* both running.
C2_Witness ==
    \E i \in Ifaces : \E t \in SendersOn(i), u \in SniffersOn(i) :
        u > t /\ u \in Range(sniff_threads) /\ err = "none"

\* C3: a start_sniff call that lists an interface with a registered sniffer
\* raises and changes neither the sniffer list nor any thread; a call that
\* lists none starts and registers one sniffer on every listed interface.
C3_AllOrNothing ==
    [][\A S \in SUBSET Ifaces :
          StartSniffStep(S)
          => IF \E i \in S : RegisteredOn(i) # {}
             THEN /\ err' = "PypackerException"
                  /\ sniff_threads' = sniff_threads
                  /\ threads' = threads
             ELSE /\ err' = "none"
                  /\ Len(sniff_threads') = Len(sniff_threads) + Cardinality(S)
                  /\ \A i \in S : Cardinality(RegisteredOn(i)') = 1]_vars

\* A start_sniff for both interfaces has been rejected; one of them has a
\* registered sniffer, the other has none.
C3_Witness ==
    /\ caller.op = "start_sniff"
    /\ err = "PypackerException"
    /\ caller.arg = Ifaces
    /\ \E i, j \in Ifaces : RegisteredOn(i) # {} /\ RegisteredOn(j) = {}

\* C4 as stated: start_sniff for interfaces on which no sender and no
\* sniffer runs any more succeeds.
C4_ExitReleases ==
    [][\A S \in SUBSET Ifaces :
          /\ StartSniffStep(S)
          /\ \A i \in S : SniffersOn(i) = {} /\ SendersOn(i) = {}
          => err' = "none"]_vars

\* The sender thread each started stream id is registered with.
SenderOf == [id \in DOMAIN send_threads |-> send_threads[id].thread]

\* The interfaces a stop_sniff call in progress is to free.
Stopping == SniffList(caller.arg)

\* C4: the end of a thread removes it from no registry; start_sniff is rejected
\* exactly when a listed interface has a registered sniffer, running or
\* ended; a stop_sniff that returns without error leaves no sniffer
\* registered on the interfaces it was called for.
C4_StopSniffReleases ==
    [][/\ \A t \in 1..Len(threads) :
             Alive(t) /\ ~Alive(t)'
             => sniff_threads' = sniff_threads /\ SenderOf' = SenderOf
       /\ \A S \in SUBSET Ifaces :
             StartSniffStep(S)
             => ((err' = "PypackerException") <=> (\E i \in S : RegisteredOn(i) # {}))
       /\ (caller.op = "stop_sniff" /\ caller.pc = "join" /\ caller'.pc = "idle")
             => \A i \in Stopping : RegisteredOn(i)' = {}]_vars

\* A start_sniff has been rejected for an interface whose registered
\* sniffer has ended.
C4_Witness ==
    /\ caller.op = "start_sniff"
    /\ err = "PypackerException"
    /\ \E i \in caller.arg : RegisteredOn(i) # {} /\ SniffersOn(i) = {}

\* The steps of sniffer thread t.
SnifferStep(t) ==
    \/ SnifferStart(t)
    \/ SnifferOpenError(t)
    \/ SnifferLoop(t)
    \/ Tick(t)
    \/ DispatchReturn(t)
    \/ DispatchBlock(t)
    \/ \E k \in FrameKinds : Deliver(t, k)

\* C5 as stated, for a finite run: while stop_sniff(force=True) has not
\* returned, the caller can take its next step or the sniffer it is
\* stopping can take one.
C5_ForcedStopGoesOn ==
    (caller.op = "stop_sniff" /\ caller.force /\ caller.pc # "idle")
    => \/ ENABLED CallerSteps
       \/ \E t \in ThreadIds : t = Head(caller.todo).thr /\ ENABLED SnifferStep(t)

\* C6: when stop_sniff has returned, the list it returns for an interface
\* is the sequence of frames the sniffer started last on that interface
\* accepted, in the order of their delivery.
C6_RoundTrip ==
    (caller.op = "stop_sniff" /\ caller.pc = "idle" /\ err = "none")
    => \A i \in DOMAIN rdata : rdata[i] = captured[i]

\* stop_sniff has returned two frames for one interface.
C6_Witness ==
    /\ caller.op = "stop_sniff"
    /\ caller.pc = "idle"
    /\ err = "none"
    /\ \E i \in DOMAIN rdata : Len(rdata[i]) = 2 /\ rdata[i][1] < rdata[i][2]

C9_StoppedCountExact ==
    (caller.op = "stop_streams" /\ caller.pc = "idle" /\ err = "none")
    => \A i \in Ifaces : SendersOn(i) = {} => sent[i] = tx[i]

\* C10 as stated, for the defined streams: when stop_streams has returned,
\* every sender started for a listed id (for any id, without a list) has
\* ended and the id has no entry in _send_threads.
C10_StoppedAndRemoved ==
    (caller.op = "stop_streams" /\ caller.pc = "idle" /\ err = "none")
    => \A t \in Senders :
          /\ threads[t].stream_id \in DOMAIN streams
          /\ caller.arg = {} \/ threads[t].stream_id \in caller.arg
          => ~Alive(t) /\ threads[t].stream_id \notin DOMAIN send_threads

\* C11 as stated: when cleanup has returned, no stream is defined, no sender
\* thread runs, and no sniffer is registered or runs.
C11_CleanupStopsAll ==
    (caller.op = "cleanup" /\ caller.pc = "idle" /\ err = "none")
    => /\ streams = << >>
       /\ \A t \in Senders : ~Alive(t)
       /\ sniff_threads = << >>
       /\ \A t \in Sniffers : ~Alive(t)

\* C12: a cleanup called when the last call was a cleanup that returned
\* without error returns at once, raises nothing and leaves the streams,
\* both registries, the threads, the collector and the counters as they are.
C12_CleanupTwice ==
    [][(caller.op = "cleanup" /\ caller.pc = "idle" /\ err = "none" /\ Cleanup)
          => /\ caller'.pc = "idle"
             /\ err' = "none"
             /\ UNCHANGED <<streams, send_threads, sniff_threads, threads,
                            collector, sent, recv>>]_vars

\* cleanup has returned after it had stopped a sniffer, and has left an
\* entry in _send_threads and a running sender behind.
C12_Witness ==
    /\ caller.op = "cleanup"
    /\ caller.pc = "idle"
    /\ err = "none"
    /\ send_threads # << >>
    /\ \E t \in Senders : Alive(t)
    /\ \E t \in Sniffers : ~Alive(t)

\* A step that is a clear call of one of the kinds ops for interface i.
ClearStep(ops, i) ==
    /\ caller.pc = "idle"
    /\ caller'.pc = "idle"
    /\ caller'.op \in ops
    /\ i \in caller'.arg
    /\ threads' = threads
    /\ nframes' = nframes

\* A step in which a sniffer on interface i gets past the start of _sniffer.
SnifferStartStep(i) ==
    \E t \in Sniffers :
        /\ threads[t].port = i
        /\ threads[t].pc = "start"
        /\ ~threads[t].pending
        /\ threads'[t].pc # "start"

\* C13 as stated: a step that lowers a sent or received counter is a clear
\* call for that interface.
C13_OnlyClearLowers ==
    [][\A i \in Ifaces :
          (sent'[i] < sent[i] \/ recv'[i] < recv[i])
          => ClearStep({"clear_statistics", "clear_sent_statistics",
                        "clear_received_statistics"}, i)]_vars

\* C13: a sent counter is lowered only by clear_statistics or
\* clear_sent_statistics for its interface; a received counter only by
\* clear_statistics or clear_received_statistics for its interface or by a
\* sniffer that starts on the interface, which always sets it to 0; a
\* lowered counter is 0.
C13_ClearOrSnifferStart ==
    [][\A i \in Ifaces :
          /\ sent'[i] < sent[i]
             => /\ sent'[i] = 0
                /\ ClearStep({"clear_statistics", "clear_sent_statistics"}, i)
          /\ recv'[i] < recv[i]
             => /\ recv'[i] = 0
                /\ \/ ClearStep({"clear_statistics", "clear_received_statistics"}, i)
                   \/ SnifferStartStep(i)
          /\ SnifferStartStep(i) => recv'[i] = 0]_vars

\* A second sniffer has started on an interface whose first sniffer had
\* received a frame that stop_sniff returned: the received counter is 0.
C13_Witness ==
    /\ caller.op = "start_sniff"
    /\ \E t \in Sniffers :
          /\ threads[t].pc = "loop"
          /\ threads[t].port \in DOMAIN rdata
          /\ rdata[threads[t].port] # << >>
          /\ recv[threads[t].port] = 0

\* C14: whenever no thread is inside a method, the counter of every
\* interface equals the number of increments applied to it since its last
\* clear; the value get_data has read is that number; and it is 0 for an
\* interface that has no entry.
C14_NoLostIncrement ==
    /\ lock = 0 => \A i \in Ifaces : Get(statdata, i) = applied[i]
    /\ \A w \in Workers :
          (calls[w].op = "get_data" /\ calls[w].pc = "release")
          => /\ calls[w].ret = applied[calls[w].iface]
             /\ calls[w].iface \notin DOMAIN statdata => calls[w].ret = 0

\* get_data has read 2 for an interface while another thread waits for the
\* lock to increase the same counter, and the other interface was never
\* touched.
C14_Witness ==
    \E w, v \in Workers :
        /\ calls[w].op = "get_data"
        /\ calls[w].pc = "release"
        /\ calls[w].ret = 2
        /\ calls[v].op = "increase"
        /\ calls[v].pc = "acquire"
        /\ calls[v].iface = calls[w].iface
        /\ DOMAIN statdata = {calls[w].iface}

\* Both senders of the pair have ended on their own and each interface's
\* sent counter shows the count of its stream.
PairDone ==
    /\ Len(threads) = 2
    /\ \A t \in Senders : threads[t].pc = "dead" /\ threads[t].exc = "none"
    /\ sent["a"] = streams[1].count
    /\ sent["b"] = streams[2].count

\* C15: a running sender can always take its next step, whatever the other
\* sender is doing; and once the two senders are started, both end on
\* their own with the sent counters of "a" and "b" at the two counts.
C15_BothComplete ==
    /\ [](\A t \in ThreadIds : (t \in Senders /\ Alive(t)) => ENABLED SenderStep(t))
    /\ (Len(threads) = 2) ~> PairDone

\* The two senders have sent different numbers of packets on their
\* interfaces and both have ended.
C15_Witness ==
    /\ PairDone
    /\ sent["a"] # sent["b"]

\* ------------------------------------------------- generated packets
\* The generators of the one stream of SpecGen and of SpecPad, the
\* lengths of their sequences, and the packets its sender has handed to
\* the socket, in order.
GenIncs == IF 1 \in DOMAIN streams THEN streams[1].incs ELSE << >>
SeqLens == {Len(GenIncs[k].vals) : k \in DOMAIN GenIncs}
Produced == wire["a"]

\* The sender of the stream has ended because next(p) had no packet left.
RanOut ==
    /\ Len(threads) = 1
    /\ threads[1].pc = "dead"
    /\ threads[1].exc = "PypackerException"

\* C16: the i-th packet produced carries the i-th value of the sequence of
\* every configured field, whatever the value is, zero included.
C16_LockStep ==
    \A i \in 1..Len(Produced) : \A k \in DOMAIN GenIncs :
        i <= Len(GenIncs[k].vals)
            => Produced[i][GenIncs[k].field] = GenIncs[k].vals[i]

\* C17 as stated: no packet is produced once one sequence is exhausted, so
\* the number of variants is the length of the shortest sequence.
C17_ZipShortest ==
    GenIncs # << >> =>
        /\ Len(Produced) <= Min(SeqLens)
        /\ RanOut => Len(Produced) = Min(SeqLens)

\* C17: packets are produced until every sequence is exhausted, so a sender
\* that runs out has produced as many variants as the longest sequence
\* has values; a field whose sequence is exhausted keeps the value of the
\* packet before.
C17_ZipLongest ==
    GenIncs # << >> =>
        /\ Len(Produced) <= Max(SeqLens)
        /\ RanOut => Len(Produced) = Max(SeqLens)
        /\ \A i \in 2..Len(Produced) : \A k \in DOMAIN GenIncs :
              i > Len(GenIncs[k].vals)
                  => Produced[i][GenIncs[k].field] = Produced[i - 1][GenIncs[k].field]

\* Sequences of one and of two values: the sender has run out after two
\* packets, the second one with the only value of the shorter sequence.
C17_Witness ==
    /\ RanOut
    /\ SeqLens = {1, 2}
    /\ Len(Produced) = 2
    /\ Produced[1] # Produced[2]

\* C18: once the sender of a stream whose sequences have N values each,
\* and whose count does not end it earlier, has stopped, it has transmitted
\* N packets, all different, and the sent counter of the interface is N.
C18_ExactlyN ==
    \A n \in SeqLens :
        (/\ SeqLens = {n}
         /\ Len(threads) = 1
         /\ threads[1].pc = "dead"
         /\ streams[1].continuous \/ streams[1].count >= n)
            => /\ Len(Produced) = n
               /\ Cardinality(Range(Produced)) = n
               /\ sent["a"] = n

\* The serialized lengths of the packets produced, in order.
Lengths == [i \in DOMAIN Produced |-> Produced[i]["len"]]

\* The sender of the stream has ended.
SenderEnded == Len(threads) = 1 /\ threads[1].pc = "dead"

\* C19: the i-th packet of a stream with a padding sequence has exactly
\* the length of the i-th padding value, a random padding one of the
\* lengths of its range, whether the packet before was shorter or longer;
\* the stream with only a padding from 10 to 50 in steps of 10, sent with
\* a count of five or continuously, emits lengths 10, 20, 30, 40, 50.
C19_PaddingSetsLength ==
    GenIncs # << >> =>
        /\ \A i \in 1..Len(Produced) :
              IF GenIncs[1].random
              THEN Produced[i]["len"] \in GenIncs[1].lo .. GenIncs[1].hi
              ELSE i <= Len(GenIncs[1].vals) => Produced[i]["len"] = GenIncs[1].vals[i]
        /\ (/\ Len(GenIncs) = 1
            /\ GenIncs[1].vals = <<10, 20, 30, 40, 50>>
            /\ SenderEnded
            /\ streams[1].continuous \/ streams[1].count = 5)
               => Lengths = <<10, 20, 30, 40, 50>>

\* The stream with only the padding from 10 to 50 has been sent: the first
\* packet was cut from 64 to 10 bytes, the later ones were filled up.
C19_Witness ==
    /\ SenderEnded
    /\ Len(GenIncs) = 1
    /\ streams[1].packet["len"] = 64
    /\ Lengths = <<10, 20, 30, 40, 50>>

\* ------------------------------------------------ malformed increments
\* A malformed increment specification: an increment tuple of fewer than
\* two elements, a required_size tuple that is too short, of an unknown
\* kind, or whose max is less than its min.
Malformed(required_size, eth_type_increment, dscp_increment) ==
    \/ eth_type_increment.given /\ Len(eth_type_increment.conf) < 2
    \/ dscp_increment.given /\ Len(dscp_increment.conf) < 2
    \/ /\ required_size.kind # "int"
       /\ \/ required_size.kind \notin {"Increment", "Random"}
          \/ required_size.kind = "Increment" /\ Len(required_size.args) < 3
          \/ required_size.kind = "Random" /\ Len(required_size.args) < 2
          \/ required_size.kind = "Increment"
             /\ required_size.args[3] < required_size.args[2]
          \/ required_size.kind = "Random"
             /\ required_size.args[2] < required_size.args[1]

\* Every generator in the stream table can be iterated: a random one has
\* a range, the others hold the values of a complete (step, count) pair or
\* of a complete size range.
TableWellFormed ==
    \A id \in DOMAIN streams : \A k \in DOMAIN streams[id].incs :
        IF streams[id].incs[k].random
        THEN streams[id].incs[k].lo <= streams[id].incs[k].hi
        ELSE streams[id].incs[k].vals # << >>

StartStreamsStep(L) ==
    /\ caller.pc = "idle"
    /\ caller'.pc = "ss_wait"
    /\ caller'.arg = L

\* C21: start_streams with an id that is not defined raises, spawns no
\* sender for the batch, and no undefined stream is ever marked active.
C21_UndefinedRejected ==
    /\ [](\A id \in DOMAIN send_threads :
            send_threads[id].active => id \in DOMAIN streams)
    /\ [][\A L \in SUBSET StreamIds :
            (StartStreamsStep(L) /\ \E id \in L : id \notin DOMAIN streams)
                => /\ err' # "none"
                   /\ threads' = threads
                   /\ send_threads' = send_threads]_vars

\* The caller is back from start_streams.
StartStreamsReturn == caller.pc = "ss_wait" /\ caller'.pc = "idle"

\* C22: start_streams returns, whatever the senders do; it returns without
\* an error; a return before every listed stream is active is one by
\* timeout, and it leaves the threads and _send_threads as they are.
C22_AlwaysReturns ==
    /\ (caller.pc = "ss_wait") ~> (caller.pc = "idle")
    /\ [](caller.op = "start_streams" => err = "none")
    /\ [][StartStreamsReturn
            => /\ ~AllActive(caller.arg) => TimedOut
               /\ threads' = threads
               /\ send_threads' = send_threads]_vars

\* start_streams has returned by timeout: a sender it started has not run
\* yet, is registered and not marked active.
C22_Witness ==
    /\ caller.pc = "idle"
    /\ caller.op = "start_streams"
    /\ \E id \in DOMAIN send_threads :
          /\ ~send_threads[id].active
          /\ threads[send_threads[id].thread].pc = "start"

\* ------------------------------------------------- failed transmission
\* C23: when s.send raises in an iteration of sender t, the sender ends
\* with PypackerException and its socket closed; that step transmits and
\* counts nothing and takes nothing back, so the counter keeps the
\* increments of the iterations before; a sender that has ended stays so.
C23_FailedSendStops ==
    /\ [](\A t \in Senders : ~Alive(t) => ~threads[t].open)
    /\ [][\A t \in Senders :
            /\ ~Alive(t) => threads'[t].pc = "dead"
            /\ (/\ threads[t].pc = "loop"
                /\ threads'[t].pc = "dead"
                /\ threads'[t].exc = "PypackerException")
                   => /\ threads[t].open /\ ~threads'[t].open
                      /\ sent' = sent
                      /\ tx' = tx
                      /\ threads[t].txn = threads[t].n
                      /\ sent[threads[t].iface] >= threads[t].n]_vars

\* The only sender so far has transmitted and counted one frame and has
\* then ended with PypackerException.
C23_Witness ==
    /\ Len(threads) = 1
    /\ threads[1].kind = "send"
    /\ threads[1].pc = "dead"
    /\ threads[1].exc = "PypackerException"
    /\ ~threads[1].open
    /\ sent["a"] = 1
    /\ tx["a"] = 1

\* ------------------------------------------------------- capture errors
\* The step in which a dispatch call of sniffer t fails for the first time.
FirstFailure(t) ==
    /\ threads[t].pc = "dispatch"
    /\ ~threads[t].failed
    /\ threads'[t].failed

\* C24 as stated: a PcapError of dispatch ends the sniffer with that error,
\* and no sniffer dispatches again on a handle that has failed.
C24_FailureEndsSniffer ==
    /\ [](\A t \in Sniffers : threads[t].failed => threads[t].pc # "dispatch")
    /\ [][\A t \in Sniffers :
            FirstFailure(t) => /\ threads'[t].pc = "dead"
                               /\ threads'[t].exc = "PcapError"]_vars

\* C24: a PcapError of dispatch is suppressed: the sniffer is back at the
\* top of its loop, no call sees an error, and a sniffer whose dispatch has
\* failed ends only by its bounds or by a stop, never with PcapError.
C24_FailureSuppressed ==
    /\ [](\A t \in Sniffers : threads[t].failed => threads[t].exc # "PcapError")
    /\ [][\A t \in Sniffers :
            FirstFailure(t) => /\ threads'[t].pc = "loop"
                               /\ threads'[t].exc = "none"
                               /\ err' = err
                               /\ caller' = caller]_vars

\* A sniffer is inside dispatch again on a handle that has failed.
C24_Witness ==
    \E t \in Sniffers : threads[t].failed /\ threads[t].pc = "dispatch"

C26_CountNotExceeded ==
    \A t \in Sniffers :
        (Alive(t) /\ threads[t].count # 0)
            => /\ recv[threads[t].port] <= threads[t].count
               /\ Len(collector[threads[t].port]) <= threads[t].count

\* C27: every stop_sniff call returns.
C27_StopSniffReturns ==
    (caller.op = "stop_sniff" /\ caller.pc # "idle") ~> (caller.pc = "idle")


\* C28: a stream definition is immutable and repeatable once created:
\* sending it changes neither the stored packet template nor the position
\* of its increment sequences, so no step of a sender changes an entry of
\* the stream table.
C28_StreamImmutable ==
    [][\A id \in DOMAIN streams \cap DOMAIN streams' :
          /\ streams'[id].packet = streams[id].packet
          /\ streams'[id].incs = streams[id].incs]_vars


\* A set_stream call that has changed the stream table (no other call of
\* SpecTable leaves caller.op at "set_stream", and its senders send plain
\* streams, which they do not change).
SetStreamStep ==
    /\ caller.pc = "idle"
    /\ caller' = Idle("set_stream", {}, FALSE)
    /\ err' = "none"
    /\ streams' # streams

\* C29: every successful set_stream returns an id that is not the id of a
\* currently defined stream: 1 when no stream is defined and
\* max(existing ids) + 1 otherwise, so the ids handed out between two
\* clears are pairwise distinct and strictly increasing (the table always
\* holds the ids 1..n).
C29_FreshId ==
    /\ [](DOMAIN streams = 1..Cardinality(DOMAIN streams))
    /\ [][SetStreamStep =>
            \E id \in DOMAIN streams' \ DOMAIN streams :
               /\ DOMAIN streams' = DOMAIN streams \cup {id}
               /\ id = IF DOMAIN streams = {} THEN 1 ELSE Max(DOMAIN streams) + 1
               /\ \A j \in DOMAIN streams : j < id]_vars

\* Two streams defined one after the other.
C29_Witness ==
    /\ caller = Idle("set_stream", {}, FALSE)
    /\ err = "none"
    /\ DOMAIN streams = {1, 2}

\* C30: set_stream changes only the stream table: it adds exactly one entry
\* and leaves the existing stream entries, _send_threads, _sniff_threads,
\* the threads, the Collector and both statistics trackers unchanged.
C30_OnlyTheTable ==
    [][SetStreamStep =>
         /\ Cardinality(DOMAIN streams' \ DOMAIN streams) = 1
         /\ DOMAIN streams \subseteq DOMAIN streams'
         /\ \A id \in DOMAIN streams : streams'[id] = streams[id]
         /\ UNCHANGED <<send_threads, sniff_threads, threads, collector, sent, recv>>]_vars

\* A second stream defined while the sender of the first one has sent and
\* counted frames and a sniffer has collected one.
C30_Witness ==
    /\ caller = Idle("set_stream", {}, FALSE)
    /\ err = "none"
    /\ DOMAIN streams = {1, 2}
    /\ send_threads # << >>
    /\ sniff_threads # << >>
    /\ collector["a"] # << >>
    /\ sent["a"] > 0
    /\ recv["a"] > 0


\* A thread inside a "with self._lock" block of the tracker.
Inside(w) == calls[w].pc \in {"increase", "store", "get_data", "clear", "release"}

\* C31: the statistics lock per interface: a thread that updates the
\* counter of one interface never has to wait for a lock held by a thread
\* that is operating on a different interface.
C31_WaitsOnlyForOwnIface ==
    \A w \in Workers :
        (calls[w].pc = "acquire" /\ lock # 0) => calls[lock].iface = calls[w].iface

\* C31, as the code has it: a tracker has one lock for all its interfaces.
\* At most one thread is inside a method of the tracker, whatever the
\* interfaces; a waiting thread waits for exactly that thread, on the same
\* interface or on another one, and the holder is inside a single update,
\* read or clear.
C31_OneLockForAll ==
    /\ \A w, v \in Workers : (Inside(w) /\ Inside(v)) => w = v
    /\ \A w \in Workers : Inside(w) <=> lock = w
    /\ \A w \in Workers : (calls[w].pc = "acquire" /\ lock # 0) => Inside(lock)

\* A thread waits to increase the counter of one interface while another
\* thread is inside the update of the other interface.
C31_Witness ==
    \E w, v \in Workers :
        /\ calls[w].pc = "acquire"
        /\ calls[w].op = "increase"
        /\ lock = v
        /\ calls[v].pc = "store"
        /\ calls[v].iface # calls[w].iface


\* C32: sanitize() stops all threads of the TG: after it has returned, no
\* sniffer thread and no sender thread started by this TG is alive; and
\* sanitize always returns.
C32_SanitizeStopsAll ==
    /\ []((caller.op = "sanitize" /\ caller.pc = "idle")
          => \A t \in DOMAIN threads : ~Alive(t))
    /\ (caller.op = "sanitize" /\ caller.pc # "idle") ~> (caller.pc = "idle")


\* C33: MultipleTG.stop_streams() called without a stream list stops all
\* running streams on every member traffic generator and returns without
\* error.
C33_StopsAllMembers ==
    [][MultiStopStreams(NoList) =>
         /\ err' = "none"
         /\ caller'.pc = "idle" => \A t \in Senders : ~Alive(t)]_vars


\* The caller injects the exception of terminate() into a sniffer.
Injection(t) ==
    /\ caller.pc = "inject"
    /\ Head(caller.todo).thr = t
    /\ threads'[t].pending

\* C34: forced termination of a sniffer is injected only while the sniffer
\* does not hold its stop lock, never in the middle of a dispatch, so every
\* matching frame is either both appended to the Collector and counted or
\* neither: when stop_sniff returns, the length of the list returned for an
\* interface equals the received counter of that interface.
C34_CollectedIsCounted ==
    /\ [][\A t \in Sniffers :
             Injection(t) => threads[t].pc \notin {"dispatch", "counting"}]_vars
    /\ []((caller.op = "stop_sniff" /\ caller.pc = "idle" /\ err = "none")
          => \A i \in DOMAIN rdata : Len(rdata[i]) = recv[i])


\* C35: stopping a task that finishes on its own at the same moment is
\* harmless: however the task's own exit falls between the steps of
\* terminate(), stop_streams and stop_sniff return without raising, and the
\* streams stop_streams was called for end up unregistered.
C35_StopRaceHarmless ==
    /\ (caller.pc = "idle" /\ caller.op \in {"stop_streams", "stop_sniff"})
       => err = "none"
    /\ (caller.pc = "idle" /\ caller.op = "stop_streams")
       => \A id \in StopList(caller.arg) : id \notin DOMAIN send_threads


\* C36: at every point each live sender thread is the one recorded in
\* _send_threads under its stream id, so there is at most one live sender
\* per stream id and stop_streams can reach every running sender.
\* (Stated for the senders of defined streams.)
C36_SendersTracked ==
    \A t \in Senders :
        (Alive(t) /\ threads[t].stream_id \in DOMAIN streams)
        => /\ threads[t].stream_id \in DOMAIN send_threads
           /\ send_threads[threads[t].stream_id].thread = t


\* C37: each sniffer filters with the filter given to the start_sniff call
\* that started it: a frame delivered to a sniffer is collected if and only
\* if it matches that sniffer's own filter (or the sniffer has none),
\* whatever other sniffers have been started since.
C37_OwnFilter ==
    [][\A t \in ThreadIds, k \in FrameKinds :
          Deliver(t, k)
          => LET th == threads[t]
             IN (collector' # collector)
                <=> (th.filter = "None" \/ Matches(k, th.filter))]_vars


\* The frame equals filter_data at every nibble of the window that the mask
\* has a 0 for; a nibble the frame does not have equals nothing.
Agrees(pkt) ==
    \A k \in 1..Len(tgfilter.mask) :
        tgfilter.mask[k] = "0"
        => /\ 2 * tgfilter.offset + k <= Len(pkt)
           /\ pkt[2 * tgfilter.offset + k] = tgfilter.data[k]

\* C39: custom_packet_filter, for a mask of the hex digits 0 and F, accepts
\* a frame if and only if, in the window of len(mask) hex digits starting at
\* byte offset filter_offset, the frame equals filter_data at every nibble
\* where the mask is 0.
C39_MaskedCompare ==
    [][\A pkt \in Frames :
          CustomDeliver(1, pkt)
          => /\ Alive(1)'
             /\ (collector' # collector) <=> Agrees(pkt)]_vars


\* The interfaces a stop_sniff in progress was called for, and a step of it.
Listed == IF caller.arg = {} THEN Ifaces ELSE caller.arg
StopSniffMoves == caller.op = "stop_sniff" /\ caller.pc # "idle" /\ caller' # caller

\* C38: stop_sniff(ifaces) stops and unregisters exactly the sniffers on the
\* listed interfaces (all of them when the list is None or empty) and
\* returns one entry per listed interface that had a sniffer, the frames of
\* its bucket, which is removed from the Collector; sniffers on other
\* interfaces keep running and their buckets are unchanged; a stop_sniff
\* for interfaces without a sniffer returns no entry, and an interface
\* without a registered sniffer has an empty bucket, so a later cycle
\* starts from no frames.
C38_StopsTheListed ==
    /\ [][(caller.pc = "idle" /\ caller'.op = "stop_sniff")
          => \A S \in SUBSET Ifaces, force \in BOOLEAN :
                StopSniff(S, force)
                => LET L == IF S = {} THEN Ifaces ELSE S
                       had == {threads[t].port : t \in Range(sniff_threads)} \cap L
                   IN /\ rdata' = << >>
                      /\ had = {} => caller'.pc = "idle"
                      /\ had # {} => {caller'.todo[k].key : k \in DOMAIN caller'.todo} = had]_vars
    /\ [][StopSniffMoves
          => /\ \A i \in Ifaces \ Listed : collector'[i] = collector[i]
             /\ \A t \in Range(sniff_threads) :
                   threads[t].port \notin Listed
                   => t \in Range(sniff_threads') /\ threads'[t] = threads[t]
             /\ caller.pc = "join"
                => LET h == Head(caller.todo)
                   IN /\ h.key \in Listed
                      /\ ~Alive(h.thr)
                      /\ h.thr \notin Range(sniff_threads')
                      /\ DOMAIN rdata' = DOMAIN rdata \cup {h.key}
                      /\ rdata'[h.key] = collector[h.key]
                      /\ collector'[h.key] = << >>
             /\ (caller'.pc = "idle" /\ err' = "none")
                => \A t \in Range(sniff_threads') : threads'[t].port \notin Listed]_vars
    /\ [](\A i \in Ifaces :
             (\A t \in Range(sniff_threads) : threads[t].port # i) => collector[i] = << >>)

\* stop_sniff(["a"]) has returned the frame collected on "a" while the
\* sniffer on "b" runs on with a frame in its bucket.
C38_Witness ==
    /\ caller.op = "stop_sniff"
    /\ caller.pc = "idle"
    /\ err = "none"
    /\ DOMAIN rdata = {"a"}
    /\ rdata["a"] # << >>
    /\ collector["a"] = << >>
    /\ collector["b"] # << >>
    /\ \E t \in Range(sniff_threads) : threads[t].port = "b" /\ Alive(t)

====
